---- MODULE Spec2Model ----
(***************************************************************************)
(* Guardian Eye (src/live_view.py): the distress controller of main(), the *)
(* AlarmController it drives, the ButtonListener thread that raises the    *)
(* interrupt flag, and the pipeline thread (the escalation job).           *)
(*                                                                         *)
(* One Tick is one iteration of the frame loop of main() (lines 575-636):  *)
(* the interrupt block (581-597) followed by the MONITORING / ALARM /      *)
(* PIPELINE chain (600-628).  The listener thread, the pipeline thread and *)
(* the wall clock move in actions of their own.  Startup is main() up to   *)
(* the try of line 574, and the Exit actions are the ways out of the frame *)
(* loop, each followed by the finally block (Spec, LiveSpec).              *)
(*                                                                         *)
(* Smaller specifications look at one collaborator each, at a finer        *)
(* grain: ButtonSpec (the flag of the ButtonListener, with the check and   *)
(* the consume() of a tick as separate steps), AlarmSpec (the methods of   *)
(* the AlarmController, one statement at a time, called by several         *)
(* threads), PoseSpec (_process_frame applied to a stream of frames),      *)
(* PipeSpec (src/pipeline.py: run_pipeline and run_button_mode), ConnSpec  *)
(* (src/pi_connection.py: the persistent connection) and VisionSpec        *)
(* (src/vision.py: the retry loop of analyze_image).                       *)
(***************************************************************************)
EXTENDS Integers, Sequences, FiniteSets, TLC

\* ------------------------------------------------------------ constants
DISTRESS_THRESHOLD == 5

COOLDOWN == 5

\* src/pose_detector.py: the COCO keypoint indices, and the confidence a
\* keypoint needs to count as visible (0.3, in hundredths).
NOSE == 0

L_EAR == 3

R_EAR == 4

L_SHOULDER == 5

R_SHOULDER == 6

L_WRIST == 9

R_WRIST == 10

L_HIP == 11

R_HIP == 12

L_KNEE == 13

R_KNEE == 14

L_ANKLE == 15

R_ANKLE == 16

KP_CONF == 30

\* vision.py: the default of max_retries, the seconds of the first wait.
DEFAULT_MAX_RETRIES == 3

BACKOFF == 15

\* ------------------------------------------------------------ bounds
\* PRESSED lines the remote script has printed that the listener has not read.
MaxQueued == 1

\* PRESSED lines the remote script prints in a run of the button flag.
MaxPresses == 8

\* Threads that call the AlarmController.
MaxCallers == 2

\* Button presses served by one run of pipeline.py.
MaxRuns == 2

\* Alarm loops running on the Pi at once.
MaxLoops == 2

\* Connections to the Pi lost between two calls of disconnect().
MaxDrops == 2

\* The largest max_retries analyze_image is called with, and the calls of
\* analyze_image in one run.
MaxRetries == 4

MaxInvocations == 2

\* ------------------------------------------------------------ state
VARIABLES
    state,              \* main: "MONITORING" | "ALARM" | "PIPELINE"
    distress_streak,    \* main: consecutive-distress counter
    since_button,       \* main: time.time() - last_button_time in seconds,
                        \* counted up to COOLDOWN (the test of line 582 reads no more)
    pipeline_thread,    \* main: id of the Thread object, 0 for None
    threads,            \* ids of the pipeline threads that are alive
    job_outcome,        \* how the last ended pipeline thread ended
    playing,            \* AlarmController._playing
    pressed,            \* ButtonListener.pressed (threading.Event)
    listener,           \* ButtonListener._loop: "off" (no thread) |
                        \* "read" (for line in stdout) | "wait"
    queued,             \* PRESSED lines waiting in the listener's stdout channel
    tick_error,         \* an exception escaped a tick (the frame loop ended)
    \* history of the run, read by the properties only
    pressed_early,      \* the pending flag was set less than COOLDOWN seconds
                        \* after the last press was honored
    pressed_in,         \* controller state when the pending flag was set
    lastTick,           \* what the last tick saw and did
    dRun,               \* consecutive distressed ticks handled by the MONITORING branch
    calmRun             \* consecutive calm ticks handled by the ALARM branch

VARIABLES
    phase,              \* main(): "startup" (lines 546-572) | "loop" (574-636) |
                        \* "stopped" (after the finally block) | "crashed"
                        \* (an exception left main() before the try of line 574)
    shutdown_calls,     \* the collaborator calls of the finally block, in order
    \* history of the run, read by the properties only
    exit_playing,       \* the alarm was playing when the frame loop was left
    honor,              \* whether a press has been honored since start-up, and
                        \* the seconds since the last one was (counted up to
                        \* COOLDOWN, from the epoch while none has been)
    job_args            \* the args of the pipeline thread that is alive: the
                        \* frame it was given a copy of and the pose_result
                        \* dict it was given a reference to, each as the
                        \* verdict it holds

runVars == << phase, shutdown_calls, exit_playing, honor, job_args >>

\* The button flag, with the check of line 581 and the consume() of lines
\* 583/585 as separate steps of the main thread.
VARIABLES
    bl_pressed,         \* ButtonListener.pressed (threading.Event)
    bl_loop,            \* ButtonListener._loop: "read" (for line in stdout) | "wait"
    bl_channel,         \* the PRESSED lines waiting in the listener's stdout
                        \* channel; for each, whether it was printed while a
                        \* press was pending
    bl_printed,         \* PRESSED lines the remote script has printed
    main_at,            \* main thread: "frame" | "consume" (the guard of line
                        \* 581 passed, consume() not yet called)
    \* history of the run, read by the properties only
    edges_set,          \* times the listener has set the flag
    edges_consumed,     \* times consume() has cleared a set flag
    checked_edge,       \* edges_set when the guard of line 581 last passed
    edge_overwritten,   \* the listener has set the flag while it was set
    consume_empty,      \* consume() has been called on a clear flag
    pressed_stale       \* the pending flag was set from a line printed while an
                        \* earlier press was pending

buttonVars == << bl_pressed, bl_loop, bl_channel, bl_printed, main_at,
                 edges_set, edges_consumed, checked_edge, edge_overwritten,
                 consume_empty, pressed_stale >>

\* The AlarmController under calls from several threads, one statement of
\* a method at a time.
VARIABLES
    al_playing,         \* AlarmController._playing
    al_lock,            \* AlarmController._lock: 0 when free, else its holder
    al_pc,              \* per caller: the statement it is about to execute
    al_closing,         \* per caller: its stop() was called by close()
    \* history of the run, read by the properties only
    al_launched,        \* playback commands issued since the last stop() that
                        \* cleared the flag
    al_last,            \* the last start() or stop() that returned: the flag it
                        \* read, the flag it left, whether it issued a command
    al_unguarded,       \* the accesses to _playing made without holding the lock
    al_loops            \* the alarm loops (while true; do mpg123 ...) running on
                        \* the Pi

alarmVars == << al_playing, al_lock, al_pc, al_closing, al_launched, al_last,
                al_unguarded, al_loops >>

\* The classifier of one frame (_process_frame).
VARIABLES
    kps_data,           \* results[0].keypoints.data: one skeleton per person, a
                        \* skeleton being <<x, y, conf>> for each of the 17
                        \* keypoints, conf in hundredths
    img_h,              \* frame.shape[0]
    pose_result,        \* the pose_result of _process_frame, once computed;
                        \* done is false while it is still the result of
                        \* the frame before
    pose_prev,          \* the pose_result the last _process_frame replaced
    detect_result       \* what detect_distress of pose_detector.py returns
                        \* for the same skeletons and height, once computed

poseVars == << kps_data, img_h, pose_result, pose_prev, detect_result >>

\* One run of pipeline.py: its command line, run_pipeline, run_button_mode.
VARIABLES
    pl_pc,              \* "main" | "wait" (run_command of line 175) | "run"
                        \* (run_pipeline is about to be called) | "ended"
    pl_args,            \* the command line: mode, text_only, play, image
    pl_run,             \* the last call of run_pipeline: the collaborators it
                        \* called, in order, what detect_distress reported,
                        \* whether it raised, what it returned
    pl_exit,            \* how the program ended
    \* history of the run, read by the properties only
    pl_presses,         \* times the remote wait command returned
    pl_runs             \* times run_pipeline was called

pipeVars == << pl_pc, pl_args, pl_run, pl_exit, pl_presses, pl_runs >>

\* pi_connection.py: the module's connection, under any sequence of calls.
VARIABLES
    cn_client,          \* _client: "None" | "unconnected" (an SSHClient whose
                        \* connect() raised) | "active" | "dead" (its transport
                        \* is no longer active)
    cn_sftp,            \* _sftp: "None" | "open" | "stale" (of a dead transport)
    \* history of the run, read by the properties only
    cn_live,            \* SSH connections open now
    cn_opened,          \* connections opened since start-up or the last
                        \* disconnect()
    cn_drops,           \* connections lost since start-up or the last
                        \* disconnect()
    cn_overlap,         \* a connection has been opened while one was open
    cn_last             \* the last call: its name, _client and _sftp before
                        \* it, whether it opened a connection, whether it raised

connVars == << cn_client, cn_sftp, cn_live, cn_opened, cn_drops, cn_overlap,
               cn_last >>

\* analyze_image of vision.py, one statement of its retry loop at a time.
VARIABLES
    ai_pc,              \* "idle" | "call" (generate_content is about to be
                        \* called) | "sleep" (in time.sleep) | "returned" |
                        \* "raised"
    ai_max_retries,     \* the argument max_retries
    ai_attempt,         \* the loop variable attempt
    ai_result,          \* what the call returned, or the exception it raised
    \* history of the run, read by the properties only
    ai_log,             \* the outcome of every generate_content of this call
    ai_waits,           \* the argument of every time.sleep of this call
    ai_invocations      \* calls of analyze_image so far

visionVars == << ai_pc, ai_max_retries, ai_attempt, ai_result, ai_log, ai_waits,
                 ai_invocations >>

toolVars == << pipeVars, connVars, visionVars >>

sideVars == << buttonVars, alarmVars, poseVars, toolVars >>

mainVars == << state, distress_streak, since_button, pipeline_thread, threads,
               job_outcome, playing, pressed, listener, queued, tick_error,
               pressed_early, pressed_in, lastTick, dRun, calmRun, runVars >>

notButtonVars == << mainVars, alarmVars, poseVars, toolVars >>

notAlarmVars == << mainVars, buttonVars, poseVars, toolVars >>

notPoseVars == << mainVars, buttonVars, alarmVars, toolVars >>

notPipeVars == << mainVars, buttonVars, alarmVars, poseVars, connVars,
                 visionVars >>

notConnVars == << mainVars, buttonVars, alarmVars, poseVars, pipeVars,
                 visionVars >>

notVisionVars == << mainVars, buttonVars, alarmVars, poseVars, pipeVars,
                   connVars >>

vars == << mainVars, sideVars >>

States == {"MONITORING", "ALARM", "PIPELINE"}

Max(S) == CHOOSE x \in S : \A y \in S : y <= x

Has(calls, c) == \E i \in 1..Len(calls) : calls[i] = c

IndexOf(calls, c) == CHOOSE i \in 1..Len(calls) : calls[i] = c

\* ------------------------------------------------------------ the tick
\* The controller's locals and the collaborators' fields, as one record the
\* blocks of a tick pass along.  calls logs the collaborator calls in order;
\* raised is an exception on its way out of the tick.
NoJob == [ launched |-> FALSE, frame |-> FALSE, evidence |-> FALSE ]

Ctl == [ state |-> state, streak |-> distress_streak, since |-> since_button,
         thread |-> pipeline_thread, alive |-> threads, playing |-> playing,
         pressed |-> pressed, raised |-> FALSE, calls |-> << >>,
         frame |-> FALSE, job |-> job_args ]

ReadFrameInPlace(c, distressed) ==
    [c EXCEPT !.frame = distressed,
              !.job = IF @.launched THEN [@ EXCEPT !.evidence = distressed] ELSE @]

\* Lines 575-578: frame is bound to a new array and pose_result to the new
\* dict of _process_frame (line 370); the objects a pipeline thread was given
\* are not touched.
ReadFrame(c, distressed) == [c EXCEPT !.frame = distressed]

AlarmStartUncaught(c, ok) ==
    LET c1 == [c EXCEPT !.calls = Append(@, "alarm.start")]
    IN  IF c1.playing THEN c1
        ELSE IF ok THEN [c1 EXCEPT !.playing = TRUE]
        ELSE [c1 EXCEPT !.raised = TRUE]

\* AlarmController.start: nothing when already playing; the exec_command is
\* inside try/except Exception, so a failure leaves _playing False and
\* nothing is raised.
AlarmStart(c, ok) ==
    LET c1 == [c EXCEPT !.calls = Append(@, "alarm.start")]
    IN  IF c1.playing THEN c1
        ELSE IF ok THEN [c1 EXCEPT !.playing = TRUE]
        ELSE c1

AlarmStopKeepsFlag(c, ok) ==
    LET c1 == [c EXCEPT !.calls = Append(@, "alarm.stop")]
    IN  IF ~c1.playing THEN c1
        ELSE IF ok THEN [c1 EXCEPT !.playing = FALSE]
        ELSE c1

\* AlarmController.stop: nothing when not playing; whether the pkill command
\* succeeds or raises, _playing is set False and nothing is raised.
AlarmStop(c, ok) ==
    LET c1 == [c EXCEPT !.calls = Append(@, "alarm.stop")]
    IN  IF ~c1.playing THEN c1
        ELSE [c1 EXCEPT !.playing = FALSE]

\* ButtonListener.was_pressed
WasPressed(c) == c.pressed

\* ButtonListener.consume
Consume(c) == [c EXCEPT !.pressed = FALSE, !.calls = Append(@, "consume")]

\* pipeline_thread = threading.Thread(target=_run_pipeline,
\* args=(frame.copy(), pose_result, args.out_dir)); .start()
LaunchPipeline(c) ==
    LET id == IF c.alive = {} THEN 1 ELSE Max(c.alive) + 1
    IN  [c EXCEPT !.thread = id, !.alive = @ \cup {id},
                  !.calls = Append(@, "launch"),
                  !.job = [ launched |-> TRUE, frame |-> c.frame,
                            evidence |-> c.frame ]]

InCooldownInclusive(c) == c.since <= COOLDOWN

\* The cooldown test of line 582: time.time() - last_button_time < 5.
InCooldown(c) == c.since < COOLDOWN

ButtonGuardAnyState(c) == WasPressed(c)

\* The guard of line 581.
ButtonGuard(c) == WasPressed(c) /\ c.state # "PIPELINE"

HonorPressNoStop(c, stopOk) ==
    LET c1 == [Consume(c) EXCEPT !.since = 0]
    IN  LaunchPipeline([c1 EXCEPT !.state = "PIPELINE"])

\* Lines 585-597: the press is honored.
HonorPress(c, stopOk) ==
    LET c1 == [Consume(c) EXCEPT !.since = 0]
        c2 == IF c1.state = "ALARM" THEN AlarmStop(c1, stopOk) ELSE c1
    IN  IF c2.raised THEN c2
        ELSE LaunchPipeline([c2 EXCEPT !.state = "PIPELINE"])

InterruptBlockDiscardRestartsCooldown(c, stopOk) ==
    IF ButtonGuard(c)
    THEN IF InCooldown(c) THEN [Consume(c) EXCEPT !.since = 0]
         ELSE HonorPress(c, stopOk)
    ELSE c

\* Lines 581-597: the interrupt block.
InterruptBlock(c, stopOk) ==
    IF ButtonGuard(c)
    THEN IF InCooldown(c) THEN Consume(c)
         ELSE HonorPress(c, stopOk)
    ELSE c

MonitoringBranchLate(c, distressed, startOk) ==
    IF distressed
    THEN LET c1 == [c EXCEPT !.streak = @ + 1]
         IN  IF c1.streak > DISTRESS_THRESHOLD
             THEN AlarmStart([c1 EXCEPT !.state = "ALARM"], startOk)
             ELSE c1
    ELSE [c EXCEPT !.streak = 0]

\* Lines 600-608.
MonitoringBranch(c, distressed, startOk) ==
    IF distressed
    THEN LET c1 == [c EXCEPT !.streak = @ + 1]
         IN  IF c1.streak >= DISTRESS_THRESHOLD
             THEN AlarmStart([c1 EXCEPT !.state = "ALARM"], startOk)
             ELSE c1
    ELSE [c EXCEPT !.streak = 0]

AlarmBranchNoClamp(c, distressed, stopOk) ==
    IF distressed
    THEN c
    ELSE LET c1 == [c EXCEPT !.streak = @ - 1]
         IN  IF c1.streak <= 0
             THEN LET c2 == AlarmStop(c1, stopOk)
                  IN  IF c2.raised THEN c2
                      ELSE [c2 EXCEPT !.state = "MONITORING", !.streak = 0]
             ELSE c1

AlarmBranchGrows(c, distressed, stopOk) ==
    IF distressed
    THEN [c EXCEPT !.streak = @ + 1]
    ELSE LET c1 == [c EXCEPT !.streak = @ - 1]
         IN  IF c1.streak <= 0
             THEN LET c2 == AlarmStop(c1, stopOk)
                  IN  IF c2.raised THEN c2
                      ELSE [c2 EXCEPT !.state = "MONITORING", !.streak = 0]
             ELSE c1

AlarmBranchRetriesStart(c, distressed, stopOk) ==
    IF distressed
    THEN AlarmStart([c EXCEPT !.streak = DISTRESS_THRESHOLD], TRUE)
    ELSE LET c1 == [c EXCEPT !.streak = @ - 1]
         IN  IF c1.streak <= 0
             THEN LET c2 == AlarmStop(c1, stopOk)
                  IN  IF c2.raised THEN c2
                      ELSE [c2 EXCEPT !.state = "MONITORING", !.streak = 0]
             ELSE c1

\* Lines 611-620.
AlarmBranch(c, distressed, stopOk) ==
    IF distressed
    THEN [c EXCEPT !.streak = DISTRESS_THRESHOLD]
    ELSE LET c1 == [c EXCEPT !.streak = @ - 1]
         IN  IF c1.streak <= 0
             THEN LET c2 == AlarmStop(c1, stopOk)
                  IN  IF c2.raised THEN c2
                      ELSE [c2 EXCEPT !.state = "MONITORING", !.streak = 0]
             ELSE c1

JobDoneNeedsResult(c) == c.thread # 0 /\ c.thread \notin c.alive /\ job_outcome = "finished"

\* pipeline_thread and not pipeline_thread.is_alive()  (line 624)
JobDone(c) == c.thread # 0 /\ c.thread \notin c.alive

PipelineBranchKeepStreak(c) ==
    IF JobDone(c)
    THEN [c EXCEPT !.thread = 0, !.state = "MONITORING"]
    ELSE c

\* Lines 623-628.
PipelineBranch(c) ==
    IF JobDone(c)
    THEN [c EXCEPT !.thread = 0, !.state = "MONITORING", !.streak = 0]
    ELSE c

\* Lines 600-628: the if / elif / elif chain on the state.
EvidenceChain(c, distressed, startOk, stopOk) ==
    IF c.raised THEN c
    ELSE IF c.state = "MONITORING" THEN MonitoringBranch(c, distressed, startOk)
    ELSE IF c.state = "ALARM" THEN AlarmBranch(c, distressed, stopOk)
    ELSE PipelineBranch(c)

\* The thread started in this tick runs concurrently with the rest of the
\* tick: it may already have ended when line 624 polls it.
ThreadRace(c, before, ends) ==
    IF ends THEN [c EXCEPT !.alive = @ \cap before] ELSE c

\* Lines 576-628: one iteration of the frame loop, up to the poll of line 624
\* (TickMid) and to its end (TickEnd).
TickMid(c, stopOk, ends) == ThreadRace(InterruptBlock(c, stopOk), c.alive, ends)

TickEndEvidenceFirst(c, distressed, startOk, stopOk, ends) ==
    ThreadRace(InterruptBlock(EvidenceChain(c, distressed, startOk, stopOk), stopOk),
               c.alive, ends)

TickEnd(c, distressed, startOk, stopOk, ends) ==
    EvidenceChain(TickMid(c, stopOk, ends), distressed, startOk, stopOk)

\* ------------------------------------------------------------ shutdown
\* AlarmController.close, lines 161-169: stop() when the alarm is playing, then
\* the SSH client is closed; nothing is raised.
AlarmCloseNoStop(c, stopOk) ==
    [c EXCEPT !.calls = Append(@, "alarm.client.close")]

AlarmClose(c, stopOk) ==
    LET s == IF c.playing THEN AlarmStop(c, stopOk) ELSE c
    IN  [s EXCEPT !.calls = Append(@, "alarm.client.close")]

\* ButtonListener.stop, lines 276-282: _running = False, the client is closed.
ButtonStop(c) == [c EXCEPT !.calls = Append(@, "button.stop")]

\* cv2.destroyAllWindows(), stream_proc.terminate(), stream_proc.wait().
StreamRelease(c) ==
    [c EXCEPT !.calls = @ \o << "destroyAllWindows", "stream.terminate" >>]

\* The finally block of main(), lines 640-649.
FinallyBlock(c, stopOk) == StreamRelease(ButtonStop(AlarmClose(c, stopOk)))

\* ------------------------------------------------------------ the button flag
ListenerNeverSleeps(flag) == FALSE

\* ButtonListener._loop line 259: while self.pressed.is_set(): sleep.
ListenerSleeps(flag) == flag

\* ButtonListener.__init__ and start(): the flag is clear, the listener reads.
ButtonInit ==
    /\ bl_pressed = FALSE
    /\ bl_loop = "read"
    /\ bl_channel = << >>
    /\ bl_printed = 0
    /\ main_at = "frame"
    /\ edges_set = 0
    /\ edges_consumed = 0
    /\ checked_edge = 0
    /\ edge_overwritten = FALSE
    /\ consume_empty = FALSE
    /\ pressed_stale = FALSE

\* The remote script (lines 205-222): wait_for_press(), print('PRESSED').  It
\* runs on the Pi whatever the listener and the flag are doing.
ButtonPress ==
    /\ bl_printed < MaxPresses
    /\ Len(bl_channel) < MaxQueued
    /\ bl_printed' = bl_printed + 1
    /\ bl_channel' = Append(bl_channel, bl_pressed)
    /\ UNCHANGED << bl_pressed, bl_loop, main_at, edges_set, edges_consumed,
                    checked_edge, edge_overwritten, consume_empty,
                    pressed_stale, notButtonVars >>

\* Lines 250-258: a PRESSED line is read, the flag is set.
ButtonRead ==
    /\ bl_loop = "read"
    /\ bl_channel # << >>
    /\ bl_channel' = Tail(bl_channel)
    /\ bl_pressed' = TRUE
    /\ bl_loop' = "wait"
    /\ edges_set' = edges_set + 1
    /\ edge_overwritten' = (edge_overwritten \/ bl_pressed)
    /\ pressed_stale' = Head(bl_channel)
    /\ UNCHANGED << bl_printed, main_at, edges_consumed, checked_edge,
                    consume_empty, notButtonVars >>

\* Lines 259-260: the listener leaves its sleep loop once the flag is clear.
ButtonResume ==
    /\ bl_loop = "wait"
    /\ ~ListenerSleeps(bl_pressed)
    /\ bl_loop' = "read"
    /\ UNCHANGED << bl_pressed, bl_channel, bl_printed, main_at, edges_set,
                    edges_consumed, checked_edge, edge_overwritten,
                    consume_empty, pressed_stale, notButtonVars >>

\* Lines 261-266: reading raises; the listener sleeps and connects again, and
\* the lines left in the old channel are gone with it.
ButtonReconnect ==
    /\ bl_loop = "read"
    /\ bl_channel # << >>
    /\ bl_channel' = << >>
    /\ UNCHANGED << bl_pressed, bl_loop, bl_printed, main_at, edges_set,
                    edges_consumed, checked_edge, edge_overwritten,
                    consume_empty, pressed_stale, notButtonVars >>

\* main() line 581, in a tick whose controller state is st: was_pressed() is
\* read; when the guard passes the main thread goes on to consume().
ButtonCheck ==
    /\ main_at = "frame"
    /\ \E st \in States :
         /\ ButtonGuard([pressed |-> bl_pressed, state |-> st])
         /\ main_at' = "consume"
         /\ checked_edge' = edges_set
    /\ UNCHANGED << bl_pressed, bl_loop, bl_channel, bl_printed, edges_set,
                    edges_consumed, edge_overwritten, consume_empty,
                    pressed_stale, notButtonVars >>

\* main() line 583 or 585: consume().
ButtonConsume ==
    /\ main_at = "consume"
    /\ bl_pressed' = FALSE
    /\ main_at' = "frame"
    /\ edges_consumed' = IF bl_pressed THEN edges_consumed + 1 ELSE edges_consumed
    /\ consume_empty' = (consume_empty \/ ~bl_pressed)
    /\ pressed_stale' = FALSE
    /\ UNCHANGED << bl_loop, bl_channel, bl_printed, edges_set, checked_edge,
                    edge_overwritten, notButtonVars >>

ButtonNext ==
    \/ ButtonPress
    \/ ButtonRead
    \/ ButtonResume
    \/ ButtonReconnect
    \/ ButtonCheck
    \/ ButtonConsume

\* ------------------------------------------------------------ the alarm controller
Callers == 1..MaxCallers

NoCall == [ op |-> "none", was |-> FALSE, now |-> FALSE, issued |-> FALSE ]

\* AlarmController.__init__, lines 106-109.
AlarmInit ==
    /\ al_playing = FALSE
    /\ al_lock = 0
    /\ al_pc = [t \in Callers |-> "idle"]
    /\ al_closing = [t \in Callers |-> FALSE]
    /\ al_launched = 0
    /\ al_last = NoCall
    /\ al_unguarded = {}
    /\ al_loops = 0

StartNeverReturnsEarly(flag) == FALSE

\* Line 133: if self._playing: return
StartReturnsEarly(flag) == flag

\* Line 146: if not self._playing: return
StopReturnsEarly(flag) == ~flag

\* Line 164: if self._playing: self.stop()
CloseCallsStop(flag) == flag

\* An access to _playing by caller t, made at the statement named at.
Access(t, at) == IF al_lock = t THEN al_unguarded ELSE al_unguarded \cup {at}

\* Where a method goes when it returns: back into close() or to the caller.
Return(t) == IF al_closing[t] THEN "close:client" ELSE "idle"

\* A thread calls start(), stop(), is_playing() or close().
AlarmCall ==
    /\ \E t \in Callers, op \in {"start:lock", "stop:lock", "query:lock", "close:test"} :
         /\ al_pc[t] = "idle"
         /\ al_pc' = [al_pc EXCEPT ![t] = op]
    /\ UNCHANGED << al_playing, al_lock, al_closing, al_launched, al_last,
                    al_unguarded, al_loops, notAlarmVars >>

\* with self._lock: (lines 132, 145, 158) -- the caller waits for the lock.
LockAcquire ==
    /\ al_lock = 0
    /\ \E t \in Callers :
         /\ al_pc[t] \in {"start:lock", "stop:lock", "query:lock"}
         /\ al_lock' = t
         /\ al_pc' = [al_pc EXCEPT ![t] =
                        CASE al_pc[t] = "start:lock" -> "start:test"
                          [] al_pc[t] = "stop:lock" -> "stop:test"
                          [] al_pc[t] = "query:lock" -> "query:read"]
    /\ UNCHANGED << al_playing, al_closing, al_launched, al_last, al_unguarded,
                    al_loops, notAlarmVars >>

\* start(), lines 133-134.
StartTest ==
    /\ \E t \in Callers :
         /\ al_pc[t] = "start:test"
         /\ al_unguarded' = Access(t, "start:133")
         /\ IF StartReturnsEarly(al_playing)
            THEN /\ al_pc' = [al_pc EXCEPT ![t] = "idle"]
                 /\ al_lock' = 0
                 /\ al_last' = [ op |-> "start", was |-> al_playing,
                                 now |-> al_playing, issued |-> FALSE ]
            ELSE /\ al_pc' = [al_pc EXCEPT ![t] = "start:exec"]
                 /\ UNCHANGED << al_lock, al_last >>
    /\ UNCHANGED << al_playing, al_closing, al_launched, al_loops, notAlarmVars >>

\* start(), lines 135-142: the loop command is sent and _playing set, or
\* connecting or sending raises and the handler reports it.
StartExec ==
    /\ \E t \in Callers,
          ok \in (IF al_loops < MaxLoops THEN BOOLEAN ELSE {FALSE}) :
         /\ al_pc[t] = "start:exec"
         /\ al_pc' = [al_pc EXCEPT ![t] = "idle"]
         /\ al_lock' = 0
         /\ al_last' = [ op |-> "start", was |-> al_playing,
                         now |-> (ok \/ al_playing), issued |-> ok ]
         /\ IF ok
            THEN /\ al_playing' = TRUE
                 /\ al_launched' = al_launched + 1
                 /\ al_unguarded' = Access(t, "start:139")
                 /\ al_loops' = al_loops + 1
            ELSE UNCHANGED << al_playing, al_launched, al_unguarded, al_loops >>
    /\ UNCHANGED << al_closing, notAlarmVars >>

\* stop(), lines 146-147.
StopTest ==
    /\ \E t \in Callers :
         /\ al_pc[t] = "stop:test"
         /\ al_unguarded' = Access(t, "stop:146")
         /\ IF StopReturnsEarly(al_playing)
            THEN /\ al_pc' = [al_pc EXCEPT ![t] = Return(t)]
                 /\ al_lock' = 0
                 /\ al_last' = [ op |-> "stop", was |-> al_playing,
                                 now |-> al_playing, issued |-> FALSE ]
            ELSE /\ al_pc' = [al_pc EXCEPT ![t] = "stop:exec"]
                 /\ UNCHANGED << al_lock, al_last >>
    /\ UNCHANGED << al_playing, al_closing, al_launched, al_loops, notAlarmVars >>

\* Lines 149-151: the pkill command ends every alarm loop on the Pi when it
\* is sent; when connecting or sending raises, nothing on the Pi changes.
PkillLeaves(loops, ok) == IF ok THEN 0 ELSE loops

\* stop(), lines 148-155: the pkill command is sent, or connecting or sending
\* raises; either way _playing is set False.
StopExec ==
    /\ \E t \in Callers, ok \in BOOLEAN :
         /\ al_pc[t] = "stop:exec"
         /\ al_pc' = [al_pc EXCEPT ![t] = Return(t)]
         /\ al_lock' = 0
         /\ al_last' = [ op |-> "stop", was |-> al_playing, now |-> FALSE,
                         issued |-> ok ]
         /\ al_playing' = FALSE
         /\ al_launched' = 0
         /\ al_unguarded' = Access(t, "stop:154")
         /\ al_loops' = PkillLeaves(al_loops, ok)
    /\ UNCHANGED << al_closing, notAlarmVars >>

\* is_playing(), lines 158-159.
QueryRead ==
    /\ \E t \in Callers :
         /\ al_pc[t] = "query:read"
         /\ al_pc' = [al_pc EXCEPT ![t] = "idle"]
         /\ al_lock' = 0
         /\ al_unguarded' = Access(t, "is_playing:159")
    /\ UNCHANGED << al_playing, al_closing, al_launched, al_last,
                    al_loops, notAlarmVars >>

\* close(), lines 164-165: _playing is read and stop() called when it is set.
\* There is no "with self._lock" around the read.
CloseTest ==
    /\ \E t \in Callers :
         /\ al_pc[t] = "close:test"
         /\ al_unguarded' = Access(t, "close:164")
         /\ IF CloseCallsStop(al_playing)
            THEN /\ al_pc' = [al_pc EXCEPT ![t] = "stop:lock"]
                 /\ al_closing' = [al_closing EXCEPT ![t] = TRUE]
            ELSE /\ al_pc' = [al_pc EXCEPT ![t] = "close:client"]
                 /\ UNCHANGED al_closing
    /\ UNCHANGED << al_playing, al_lock, al_launched, al_last, al_loops, notAlarmVars >>

\* close(), lines 166-167: the SSH client is closed (start and stop connect
\* again when they need to).
CloseClient ==
    /\ \E t \in Callers :
         /\ al_pc[t] = "close:client"
         /\ al_pc' = [al_pc EXCEPT ![t] = "idle"]
         /\ al_closing' = [al_closing EXCEPT ![t] = FALSE]
    /\ UNCHANGED << al_playing, al_lock, al_launched, al_last, al_unguarded,
                    al_loops, notAlarmVars >>

AlarmNext ==
    \/ AlarmCall
    \/ LockAcquire
    \/ StartTest
    \/ StartExec
    \/ StopTest
    \/ StopExec
    \/ QueryRead
    \/ CloseTest
    \/ CloseClient

\* ------------------------------------------------------------ the classifier
\* Coordinates are pixels; a midpoint is kept as twice its value (the sum of
\* the two coordinates), so every comparison of the code is made on integers,
\* both sides multiplied by the same factor.
None == << >>

Min(S) == CHOOSE x \in S : \A y \in S : x <= y

Abs(n) == IF n < 0 THEN -n ELSE n

KpIgnoresConf(keypoints, idx) == keypoints[idx]

KpStrict(keypoints, idx) ==
    IF keypoints[idx][3] <= KP_CONF THEN None ELSE keypoints[idx]

\* _kp, src/pose_detector.py lines 52-57.
Kp(keypoints, idx) ==
    IF keypoints[idx][3] < KP_CONF THEN None ELSE keypoints[idx]

\* _mid, src/pose_detector.py lines 60-64: <<2 * x, 2 * y>> of the midpoint.
Mid(a, b) ==
    IF a = None \/ b = None THEN None
    ELSE << a[1] + b[1], a[2] + b[2] >>

CheckFallenInclusive(nose, mid_hip) ==
    IF nose # None /\ mid_hip # None /\ 2 * nose[2] - mid_hip[2] >= 2 * 20
    THEN << "head below hips - possible fall" >>
    ELSE << >>

\* CHECK 1, lines 303-306: nose[1] - mid_hip[1] > 20.
CheckFallen(nose, mid_hip) ==
    IF nose # None /\ mid_hip # None /\ 2 * nose[2] - mid_hip[2] > 2 * 20
    THEN << "head below hips - possible fall" >>
    ELSE << >>

DetectCheckFallenAtHips(nose, mid_hip) ==
    IF nose # None /\ mid_hip # None /\ 2 * nose[2] - mid_hip[2] >= 2 * 20
    THEN << "head below hips - possible fall" >>
    ELSE << >>

\* CHECK 1 of detect_distress, src/pose_detector.py lines 239-242.
DetectCheckFallen(nose, mid_hip) ==
    IF nose # None /\ mid_hip # None /\ 2 * nose[2] - mid_hip[2] > 2 * 20
    THEN << "head below hips - possible fall" >>
    ELSE << >>

\* CHECK 2a, lines 309-313: torso_dx > torso_dy * 1.5 and torso_dy < 100.
CheckTorso(mid_shoulder, mid_hip) ==
    IF mid_shoulder # None /\ mid_hip # None
    THEN LET torso_dy == Abs(mid_shoulder[2] - mid_hip[2])
             torso_dx == Abs(mid_shoulder[1] - mid_hip[1])
         IN  IF 2 * torso_dx > 3 * torso_dy /\ torso_dy < 2 * 100
             THEN << "torso horizontal - lying down" >>
             ELSE << >>
    ELSE << >>

CheckSpreadNoHeightGuard(pts) ==
    LET seen == { i \in 1..Len(pts) : pts[i] # None }
    IN  IF Cardinality(seen) >= 4
        THEN LET bw == Max({ pts[i][1] : i \in seen }) - Min({ pts[i][1] : i \in seen })
                 bh == Max({ pts[i][2] : i \in seen }) - Min({ pts[i][2] : i \in seen })
             IN  IF 10 * bw > 18 * bh
                 THEN << "body spread horizontal - on the ground" >>
                 ELSE << >>
        ELSE << >>

\* CHECK 2 method B of detect_distress, src/pose_detector.py lines 252-261.
DetectCheckSpread(pts) ==
    LET seen == { i \in 1..Len(pts) : pts[i] # None }
    IN  IF Cardinality(seen) >= 4
        THEN LET body_width == Max({ pts[i][1] : i \in seen })
                               - Min({ pts[i][1] : i \in seen })
                 body_height == Max({ pts[i][2] : i \in seen })
                                - Min({ pts[i][2] : i \in seen })
             IN  IF body_height > 0 /\ 10 * body_width > 18 * body_height
                 THEN << "body spread horizontal - on the ground" >>
                 ELSE << >>
        ELSE << >>

\* CHECK 2b, lines 316-324: at least 4 of the 9 points, bw / bh > 1.8.
CheckSpread(pts) ==
    LET seen == { i \in 1..Len(pts) : pts[i] # None }
    IN  IF Cardinality(seen) >= 4
        THEN LET bw == Max({ pts[i][1] : i \in seen }) - Min({ pts[i][1] : i \in seen })
                 bh == Max({ pts[i][2] : i \in seen }) - Min({ pts[i][2] : i \in seen })
             IN  IF bh > 0 /\ 10 * bw > 18 * bh
                 THEN << "body spread horizontal - on the ground" >>
                 ELSE << >>
        ELSE << >>

CheckHandsUntiered(nose, mid_shoulder, l_wrist, r_wrist) ==
    IF nose # None /\ mid_shoulder # None
    THEN LET head_y == nose[2]
             zone4 == 2 * mid_shoulder[2] + Abs(mid_shoulder[2] - 2 * head_y)
             Above(w) == w # None /\ w[2] < head_y
             Face(w) == w # None /\ ~(w[2] < head_y) /\ 4 * w[2] < zone4
             hands_above == (IF Above(l_wrist) THEN 1 ELSE 0)
                            + (IF Above(r_wrist) THEN 1 ELSE 0)
             hands_face == (IF Face(l_wrist) THEN 1 ELSE 0)
                           + (IF Face(r_wrist) THEN 1 ELSE 0)
         IN  (IF hands_above >= 1 THEN << "hands above head - distress" >>
              ELSE << >>)
             \o (IF hands_face + hands_above >= 2
                 THEN << "hands covering face - distress" >> ELSE << >>)
             \o (IF hands_face >= 1
                 THEN << "hand near face - possible distress" >> ELSE << >>)
    ELSE << >>

\* CHECK 3, lines 327-346.  With s2 twice shoulder_y: margin is
\* |s2 - 2 head_y| / 4 and face_zone_bottom is (2 s2 + |s2 - 2 head_y|) / 4.
CheckHands(nose, mid_shoulder, l_wrist, r_wrist) ==
    IF nose # None /\ mid_shoulder # None
    THEN LET head_y == nose[2]
             zone4 == 2 * mid_shoulder[2] + Abs(mid_shoulder[2] - 2 * head_y)
             Above(w) == w # None /\ w[2] < head_y
             Face(w) == w # None /\ ~(w[2] < head_y) /\ 4 * w[2] < zone4
             hands_above == (IF Above(l_wrist) THEN 1 ELSE 0)
                            + (IF Above(r_wrist) THEN 1 ELSE 0)
             hands_face == (IF Face(l_wrist) THEN 1 ELSE 0)
                           + (IF Face(r_wrist) THEN 1 ELSE 0)
         IN  IF hands_above >= 1 THEN << "hands above head - distress" >>
             ELSE IF hands_face + hands_above >= 2
                  THEN << "hands covering face - distress" >>
             ELSE IF hands_face >= 1
                  THEN << "hand near face - possible distress" >>
             ELSE << >>
    ELSE << >>

\* CHECK 3 of detect_distress, src/pose_detector.py lines 263-288.
DetectCheckHands(nose, mid_shoulder, l_wrist, r_wrist) ==
    IF nose # None /\ mid_shoulder # None
    THEN LET head_y == nose[2]
             zone4 == 2 * mid_shoulder[2] + Abs(mid_shoulder[2] - 2 * head_y)
             Above(w) == w # None /\ w[2] < head_y
             Face(w) == w # None /\ ~(w[2] < head_y) /\ 4 * w[2] < zone4
             hands_above_head == (IF Above(l_wrist) THEN 1 ELSE 0)
                                 + (IF Above(r_wrist) THEN 1 ELSE 0)
             hands_on_face == (IF Face(l_wrist) THEN 1 ELSE 0)
                              + (IF Face(r_wrist) THEN 1 ELSE 0)
         IN  IF hands_above_head >= 1
             THEN << "hands above head - distress posture" >>
             ELSE IF hands_on_face + hands_above_head >= 2
                  THEN << "hands covering face - distress posture" >>
             ELSE IF hands_on_face >= 1
                  THEN << "hand near face - possible distress" >>
             ELSE << >>
    ELSE << >>

\* CHECK 4, lines 349-353: torso < 40 and head_to_hip < 60.
CheckCrouched(nose, mid_shoulder, mid_hip) ==
    IF mid_shoulder # None /\ mid_hip # None /\ nose # None
    THEN LET torso == Abs(mid_shoulder[2] - mid_hip[2])
             head_to_hip == Abs(2 * nose[2] - mid_hip[2])
         IN  IF torso < 2 * 40 /\ head_to_hip < 2 * 60
             THEN << "crouched/curled posture" >>
             ELSE << >>
    ELSE << >>

RECURSIVE SumY(_, _)
SumY(pts, seen) ==
    IF seen = {} THEN 0
    ELSE LET i == CHOOSE j \in seen : TRUE
         IN  pts[i][2] + SumY(pts, seen \ {i})

\* CHECK 5, lines 356-360: at least 3 of the 5 points, avg_y > img_h * 0.75.
CheckLow(pts, h) ==
    LET seen == { i \in 1..Len(pts) : pts[i] # None }
    IN  IF Cardinality(seen) >= 3
           /\ 4 * SumY(pts, seen) > 3 * h * Cardinality(seen)
        THEN << "body very low - possible collapse" >>
        ELSE << >>

\* _run_distress_checks, lines 287-362.
RunDistressChecks(kps_numpy, h) ==
    LET nose == Kp(kps_numpy, NOSE)
        l_shoulder == Kp(kps_numpy, L_SHOULDER)
        r_shoulder == Kp(kps_numpy, R_SHOULDER)
        l_wrist == Kp(kps_numpy, L_WRIST)
        r_wrist == Kp(kps_numpy, R_WRIST)
        l_hip == Kp(kps_numpy, L_HIP)
        r_hip == Kp(kps_numpy, R_HIP)
        l_ankle == Kp(kps_numpy, L_ANKLE)
        r_ankle == Kp(kps_numpy, R_ANKLE)
        mid_shoulder == Mid(l_shoulder, r_shoulder)
        mid_hip == Mid(l_hip, r_hip)
    IN  CheckFallen(nose, mid_hip)
        \o CheckTorso(mid_shoulder, mid_hip)
        \o CheckSpread(<< nose, l_shoulder, r_shoulder, l_hip, r_hip,
                          l_ankle, r_ankle, l_wrist, r_wrist >>)
        \o CheckHands(nose, mid_shoulder, l_wrist, r_wrist)
        \o CheckCrouched(nose, mid_shoulder, mid_hip)
        \o CheckLow(<< nose, l_shoulder, r_shoulder, l_hip, r_hip >>, h)

\* A site's coordinates are kept as four times their value: twice Mid of two
\* keypoints, and Mid of two midpoints as it is.
Twice(m) == << 2 * m[1], 2 * m[2] >>

GetAnatomicalSitesWithDefaults(kps) ==
    LET Or0(p) == IF p = None THEN << 0, 0, 0 >> ELSE p
        P(idx) == Or0(Kp(kps, idx))
    IN  { << "sternum_cpr", Twice(Mid(P(L_SHOULDER), P(R_SHOULDER))) >>,
          << "left_outer_thigh_epipen", Twice(Mid(P(L_HIP), P(L_KNEE))) >>,
          << "right_outer_thigh_epipen", Twice(Mid(P(R_HIP), P(R_KNEE))) >>,
          << "left_neck_pulse", Twice(Mid(P(L_EAR), P(L_SHOULDER))) >>,
          << "right_neck_pulse", Twice(Mid(P(R_EAR), P(R_SHOULDER))) >>,
          << "chest_center_aed",
             Mid(Mid(P(L_SHOULDER), P(R_SHOULDER)), Mid(P(L_HIP), P(R_HIP))) >> }

\* _get_anatomical_sites, src/pose_detector.py lines 67-107: the dict it
\* returns, as the set of its <<name, coordinates>> items.
GetAnatomicalSites(kps) ==
    LET l_shoulder == Kp(kps, L_SHOULDER)
        r_shoulder == Kp(kps, R_SHOULDER)
        l_hip == Kp(kps, L_HIP)
        r_hip == Kp(kps, R_HIP)
        l_knee == Kp(kps, L_KNEE)
        r_knee == Kp(kps, R_KNEE)
        l_ear == Kp(kps, L_EAR)
        r_ear == Kp(kps, R_EAR)
        sternum == Mid(l_shoulder, r_shoulder)
    IN  (IF sternum # None THEN { << "sternum_cpr", Twice(sternum) >> } ELSE {})
        \cup (IF l_hip # None /\ l_knee # None
              THEN { << "left_outer_thigh_epipen", Twice(Mid(l_hip, l_knee)) >> }
              ELSE {})
        \cup (IF r_hip # None /\ r_knee # None
              THEN { << "right_outer_thigh_epipen", Twice(Mid(r_hip, r_knee)) >> }
              ELSE {})
        \cup (IF l_ear # None /\ l_shoulder # None
              THEN { << "left_neck_pulse", Twice(Mid(l_ear, l_shoulder)) >> }
              ELSE {})
        \cup (IF r_ear # None /\ r_shoulder # None
              THEN { << "right_neck_pulse", Twice(Mid(r_ear, r_shoulder)) >> }
              ELSE {})
        \cup (IF sternum # None /\ l_hip # None /\ r_hip # None
              THEN { << "chest_center_aed", Mid(sternum, Mid(l_hip, r_hip)) >> }
              ELSE {})

\* The loop of _process_frame, lines 389-395, over the persons from..Len: a
\* detection is <<person, reason>>, a site <<person, name, coordinates>>.
RECURSIVE AllDetections(_, _, _)
AllDetections(data, h, from) ==
    IF from > Len(data) THEN << >>
    ELSE LET ds == RunDistressChecks(data[from], h)
         IN  [ i \in 1..Len(ds) |-> << from, ds[i] >> ]
             \o AllDetections(data, h, from + 1)

AllSites(data) ==
    UNION { { << i, site[1], site[2] >> : site \in GetAnatomicalSites(data[i]) }
            : i \in 1..Len(data) }

NoResult == [ done |-> FALSE, is_distressed |-> FALSE, detections |-> << >>,
              anatomical_sites |-> {}, num_persons |-> 0 ]

ProcessFrameResultCarries(data, h) ==
    LET all_detections == pose_result.detections \o AllDetections(data, h, 1)
    IN  [ done |-> TRUE,
          is_distressed |-> Len(all_detections) > 0,
          detections |-> all_detections,
          anatomical_sites |-> pose_result.anatomical_sites \cup AllSites(data),
          num_persons |-> Len(data) ]

\* _process_frame, lines 365-403.
ProcessFrameResult(data, h) ==
    IF Len(data) = 0
    THEN [ NoResult EXCEPT !.done = TRUE ]
    ELSE LET all_detections == AllDetections(data, h, 1)
         IN  [ done |-> TRUE,
               is_distressed |-> Len(all_detections) > 0,
               detections |-> all_detections,
               anatomical_sites |-> AllSites(data),
               num_persons |-> Len(data) ]

\* CHECK 2 method A of detect_distress, src/pose_detector.py lines 246-250.
DetectCheckTorso(mid_shoulder, mid_hip) ==
    IF mid_shoulder # None /\ mid_hip # None
    THEN LET torso_dy == Abs(mid_shoulder[2] - mid_hip[2])
             torso_dx == Abs(mid_shoulder[1] - mid_hip[1])
         IN  IF 2 * torso_dx > 3 * torso_dy /\ torso_dy < 2 * 100
             THEN << "torso horizontal - lying down" >>
             ELSE << >>
    ELSE << >>

\* CHECK 4 of detect_distress, src/pose_detector.py lines 290-295.
DetectCheckCrouched(nose, mid_shoulder, mid_hip) ==
    IF mid_shoulder # None /\ mid_hip # None /\ nose # None
    THEN LET torso == Abs(mid_shoulder[2] - mid_hip[2])
             head_to_hip == Abs(2 * nose[2] - mid_hip[2])
         IN  IF torso < 2 * 40 /\ head_to_hip < 2 * 60
             THEN << "crouched/curled posture" >>
             ELSE << >>
    ELSE << >>

\* CHECK 5 of detect_distress, src/pose_detector.py lines 297-302.
DetectCheckLow(pts, h) ==
    LET visible == { i \in 1..Len(pts) : pts[i] # None }
    IN  IF Cardinality(visible) >= 3
           /\ 4 * SumY(pts, visible) > 3 * h * Cardinality(visible)
        THEN << "body very low in frame - possible collapse" >>
        ELSE << >>

\* The body of the loop of detect_distress over one person,
\* src/pose_detector.py lines 219-302.
DetectPerson(kps, h) ==
    LET nose == Kp(kps, NOSE)
        l_shoulder == Kp(kps, L_SHOULDER)
        r_shoulder == Kp(kps, R_SHOULDER)
        l_wrist == Kp(kps, L_WRIST)
        r_wrist == Kp(kps, R_WRIST)
        l_hip == Kp(kps, L_HIP)
        r_hip == Kp(kps, R_HIP)
        l_ankle == Kp(kps, L_ANKLE)
        r_ankle == Kp(kps, R_ANKLE)
        mid_shoulder == Mid(l_shoulder, r_shoulder)
        mid_hip == Mid(l_hip, r_hip)
    IN  DetectCheckFallen(nose, mid_hip)
        \o DetectCheckTorso(mid_shoulder, mid_hip)
        \o DetectCheckSpread(<< nose, l_shoulder, r_shoulder, l_hip, r_hip,
                                l_ankle, r_ankle, l_wrist, r_wrist >>)
        \o DetectCheckHands(nose, mid_shoulder, l_wrist, r_wrist)
        \o DetectCheckCrouched(nose, mid_shoulder, mid_hip)
        \o DetectCheckLow(<< nose, l_shoulder, r_shoulder, l_hip, r_hip >>, h)

\* The loop of detect_distress, src/pose_detector.py lines 219-307, over the
\* persons from..Len.
RECURSIVE DetectAllDetections(_, _, _)
DetectAllDetections(data, h, from) ==
    IF from > Len(data) THEN << >>
    ELSE LET ds == DetectPerson(data[from], h)
         IN  [ i \in 1..Len(ds) |-> << from, ds[i] >> ]
             \o DetectAllDetections(data, h, from + 1)

\* Lines 304-307 of src/pose_detector.py.
DetectAllSites(data) ==
    UNION { { << i, site[1], site[2] >> : site \in GetAnatomicalSites(data[i]) }
            : i \in 1..Len(data) }

\* detect_distress, src/pose_detector.py lines 177-324.
DetectDistress(data, h) ==
    IF Len(data) = 0
    THEN [ NoResult EXCEPT !.done = TRUE ]
    ELSE LET all_detections == DetectAllDetections(data, h, 1)
         IN  [ done |-> TRUE,
               is_distressed |-> Len(all_detections) > 0,
               detections |-> all_detections,
               anatomical_sites |-> DetectAllSites(data),
               num_persons |-> Len(data) ]

\* ------------------------------------------------------------ frames
\* Confidences just below and at KP_CONF, and a plainly visible one.
Hidden == KP_CONF - 1

Confs == { Hidden, KP_CONF }

Heights == { 240, 480 }

NoseChoices == { << 320, y, c >> : y \in { 100, 120, 121, 150 }, c \in Confs }

LHipChoices == { << 300, y, c >> : y \in { 100, 101 }, c \in Confs }

RHipChoices == { << 340, y, c >> : y \in { 100, 101 }, c \in Confs }

\* The other keypoints: an upright body and a body lying on the floor, each
\* seen (confidence 0.9) and unseen (confidence just below KP_CONF).
Upright(c) ==
    [ k \in 0..16 |->
        CASE k \in { L_EAR, R_EAR } -> << 310 + 4 * k, 95, c >>
          [] k = L_SHOULDER -> << 290, 140, c >>
          [] k = R_SHOULDER -> << 350, 140, c >>
          [] k \in { L_WRIST, R_WRIST } -> << 260 + 10 * k, 230, c >>
          [] k \in { L_KNEE, R_KNEE } -> << 170 + 10 * k, 330, c >>
          [] k \in { L_ANKLE, R_ANKLE } -> << 150 + 10 * k, 420, c >>
          [] OTHER -> << 0, 0, 0 >> ]

Lying(c) ==
    [ k \in 0..16 |->
        CASE k \in { L_EAR, R_EAR } -> << 100, 395 + k, c >>
          [] k = L_SHOULDER -> << 160, 400, c >>
          [] k = R_SHOULDER -> << 160, 430, c >>
          [] k \in { L_WRIST, R_WRIST } -> << 250, 380 + 5 * k, c >>
          [] k \in { L_KNEE, R_KNEE } -> << 420, 260 + 12 * k, c >>
          [] k \in { L_ANKLE, R_ANKLE } -> << 520, 240 + 12 * k, c >>
          [] OTHER -> << 0, 0, 0 >> ]

RestPoses == { Upright(90), Upright(Hidden), Lying(90), Lying(Hidden) }

Skeleton(nose, l_hip, r_hip, rest) ==
    [ k \in 0..16 |->
        IF k = NOSE THEN nose
        ELSE IF k = L_HIP THEN l_hip
        ELSE IF k = R_HIP THEN r_hip
        ELSE rest[k] ]

Skeletons ==
    { Skeleton(n, lh, rh, rest) :
        n \in NoseChoices, lh \in LHipChoices, rh \in RHipChoices,
        rest \in RestPoses }

\* A whole body in view, standing and on the floor.
Standing ==
    Skeleton(<< 320, 100, 90 >>, << 300, 250, 90 >>, << 340, 250, 90 >>, Upright(90))

Floor ==
    Skeleton(<< 100, 400, 90 >>, << 300, 372, 90 >>, << 300, 382, 90 >>, Lying(90))

\* The skeleton sk with the keypoints of hide seen at confidence c.
SetConf(sk, hide, c) ==
    [ k \in 0..16 |-> IF k \in hide THEN << sk[k][1], sk[k][2], c >> ELSE sk[k] ]

\* The keypoints _get_anatomical_sites reads, hidden in every combination.
SiteInputs == { L_EAR, R_EAR, L_SHOULDER, R_SHOULDER, L_HIP, R_HIP, L_KNEE, R_KNEE }

SiteSkeletons ==
    { SetConf(b, hide, Hidden) : b \in { Standing, Floor }, hide \in SUBSET SiteInputs }

\* Hands: each wrist above the nose, level with it, inside the face zone, at
\* or just under its lower edge, and at the waist, seen or unseen; the nose
\* and a shoulder seen or unseen; the shoulders level or not.
WristYs == { 99, 100, 159, 160, 230 }

HandSkeletons ==
    { [ k \in 0..16 |->
          CASE k = NOSE -> << 320, 100, cn >>
            [] k = L_SHOULDER -> << 290, 140, cs >>
            [] k = R_SHOULDER -> << 350, sy, 90 >>
            [] k = L_WRIST -> << 300, ly, lc >>
            [] k = R_WRIST -> << 340, ry, rc >>
            [] OTHER -> Standing[k] ] :
        cn \in Confs, cs \in Confs, sy \in { 140, 141 },
        ly \in WristYs, lc \in Confs, ry \in WristYs, rc \in Confs }

\* A body on the floor, hands over the head, low in the frame: every check
\* but the bounding box has what it needs to fire.  Its nose, shoulders, hips
\* and wrists are seen at exactly KP_CONF or unseen, in every combination.
Collapsed ==
    [ Floor EXCEPT ![L_WRIST] = << 250, 380, 90 >>, ![R_WRIST] = << 250, 385, 90 >> ]

GateInputs == { NOSE, L_SHOULDER, R_SHOULDER, L_HIP, R_HIP, L_WRIST, R_WRIST }

GateSkeletons ==
    { SetConf(SetConf(Collapsed, GateInputs, KP_CONF), hide, Hidden) :
        hide \in SUBSET GateInputs }

\* The bounding box: the nine points on one horizontal line but for one
\* ankle, which is on it or 5 or 10 below; the box 9, 18 or 19 wide; four of
\* the points seen or unseen one by one, the other five together.
BoxPoints ==
    { NOSE, L_SHOULDER, R_SHOULDER, L_HIP, R_HIP, L_ANKLE, R_ANKLE, L_WRIST, R_WRIST }

BoxSkeletons ==
    { [ k \in 0..16 |->
          CASE k = NOSE -> << 100, 300, cn >>
            [] k = L_SHOULDER -> << 101, 300, cs >>
            [] k = L_ANKLE -> << 105, ay, ca >>
            [] k = R_WRIST -> << wx, 300, cw >>
            [] k \in { R_SHOULDER, L_HIP, R_HIP, R_ANKLE, L_WRIST } -> << 96 + k, 300, cg >>
            [] OTHER -> << 0, 0, 0 >> ] :
        cn \in Confs, cs \in Confs, ca \in Confs, cw \in Confs,
        cg \in { Hidden, 90 }, ay \in { 300, 305, 310 }, wx \in { 109, 118, 119 } }

\* Frames of two and three persons: one standing, one lying on the floor, one
\* of whom nothing is seen.
Unseen == SetConf(Standing, 0..16, Hidden)

People == { Standing, Floor, Unseen }

GroupFrames ==
    { << p, q >> : p \in People, q \in People }
    \cup { << p, q, r >> : p \in People, q \in People, r \in People }

Frames ==
    { << >> }
    \cup { << sk >> : sk \in Skeletons \cup SiteSkeletons \cup HandSkeletons
                            \cup GateSkeletons \cup BoxSkeletons }
    \cup GroupFrames

\* The frames that follow the first one in the stream.
LaterFrames ==
    { << >>, << Standing >>, << Floor >>, << Standing, Floor >>,
      << Floor, Unseen, Standing >> }

\* ------------------------------------------------------------ pipeline.py
NO_DISTRESS_RESPONSE == "No distress detected. The scene appears safe."

NoRun == [ calls |-> << >>, pose |-> "none", raised |-> FALSE, result |-> << >> ]

NoArgs == [ mode |-> "none", text_only |-> FALSE, play |-> FALSE, image |-> "none" ]

PipeInit ==
    /\ pl_pc = "main"
    /\ pl_args = NoArgs
    /\ pl_run = NoRun
    /\ pl_exit = "none"
    /\ pl_presses = 0
    /\ pl_runs = 0

\* What the collaborators of one run do: whether each returns (or raises),
\* and what detect_distress reports.
Envs == [ capture : BOOLEAN, distressed : BOOLEAN, gemini : BOOLEAN,
          tts : BOOLEAN, play : BOOLEAN ]

\* A collaborator is called, unless the run has raised already.
Call(run, name, ok) ==
    IF run.raised THEN run
    ELSE [ run EXCEPT !.calls = Append(@, name), !.raised = ~ok ]

Returns(run, description, audio_path) ==
    IF run.raised THEN run ELSE [ run EXCEPT !.result = << description, audio_path >> ]

FastPathCallsGemini(run, text_only, play, env) ==
    LET g == Call(run, "analyze_image", env.gemini)
        t == IF text_only THEN g ELSE Call(g, "text_to_speech", env.tts)
        p == IF ~text_only /\ play THEN Call(t, "play_audio_on_pi", env.play) ELSE t
    IN  Returns(p, NO_DISTRESS_RESPONSE, "None")

\* run_pipeline lines 101-117: no distress.
FastPath(run, text_only, play, env) ==
    LET t == IF text_only THEN run ELSE Call(run, "text_to_speech", env.tts)
        p == IF ~text_only /\ play THEN Call(t, "play_audio_on_pi", env.play) ELSE t
    IN  Returns(p, NO_DISTRESS_RESPONSE, "None")

\* run_pipeline lines 119-145: distress.
FullPath(run, text_only, play, env) ==
    LET g == Call(run, "analyze_image", env.gemini)
    IN  IF text_only THEN Returns(g, "guidance", "None")
        ELSE LET t == Call(g, "text_to_speech", env.tts)
                 p == IF play THEN Call(t, "play_audio_on_pi", env.play) ELSE t
             IN  Returns(p, "guidance", "mp3")

\* run_pipeline, lines 61-145.
RunPipeline(image_path_in, text_only, play, env) ==
    LET image == IF image_path_in = "missing" THEN [ NoRun EXCEPT !.raised = TRUE ]
                 ELSE IF image_path_in = "exists" THEN NoRun
                 ELSE Call(NoRun, "capture_image_remote", env.capture)
        detected == Call(image, "detect_distress", TRUE)
    IN  IF detected.raised THEN detected
        ELSE IF ~env.distressed
        THEN FastPath([ detected EXCEPT !.pose = "calm" ], text_only, play, env)
        ELSE FullPath([ detected EXCEPT !.pose = "distress" ], text_only, play, env)

\* pipeline.py lines 238-265: the command line is parsed, connect() is called
\* unless an image is given, --image and --text-only are refused in button
\* mode.
PipeStart ==
    /\ pl_pc = "main"
    /\ \E mode \in { "once", "button" }, text_only \in BOOLEAN, play \in BOOLEAN,
          image \in { "none", "exists", "missing" }, connectOk \in BOOLEAN :
         /\ pl_args' = [ mode |-> mode, text_only |-> text_only, play |-> play,
                         image |-> image ]
         /\ IF image = "none" /\ ~connectOk
            THEN pl_pc' = "ended" /\ pl_exit' = "connect failed"
            ELSE IF mode = "once"
            THEN pl_pc' = "run" /\ pl_exit' = "none"
            ELSE IF image # "none" \/ text_only
            THEN pl_pc' = "ended" /\ pl_exit' = "refused"
            ELSE pl_pc' = "wait" /\ pl_exit' = "none"
    /\ UNCHANGED << pl_run, pl_presses, pl_runs, notPipeVars >>

\* run_button_mode lines 174-183: the remote command that waits for a press
\* returns, or run_command raises (the command exits with a code other than
\* 0, or the connection fails); nothing in run_button_mode handles that, so
\* it leaves the loop and reaches the handler of line 268.
PipeWait ==
    /\ pl_pc = "wait"
    /\ pl_presses < MaxRuns
    /\ \E waitOk \in BOOLEAN :
         IF waitOk
         THEN /\ pl_presses' = pl_presses + 1
              /\ pl_pc' = "run"
              /\ pl_exit' = "none"
         ELSE /\ pl_presses' = pl_presses
              /\ pl_pc' = "ended"
              /\ pl_exit' = "wait failed"
    /\ UNCHANGED << pl_args, pl_run, pl_runs, notPipeVars >>

\* run_pipeline is called: line 246 in once mode (an exception reaches the
\* handler of line 268), lines 185-192 in button mode (an exception is
\* printed and the loop goes on).
PipeRun ==
    /\ pl_pc = "run"
    /\ \E env \in Envs :
         LET run == RunPipeline(pl_args.image, pl_args.text_only, pl_args.play, env)
         IN  /\ pl_run' = run
             /\ IF pl_args.mode = "button"
                THEN pl_pc' = "wait" /\ pl_exit' = "none"
                ELSE /\ pl_pc' = "ended"
                     /\ pl_exit' = IF run.raised THEN "run failed" ELSE "returned"
    /\ pl_runs' = pl_runs + 1
    /\ UNCHANGED << pl_args, pl_presses, notPipeVars >>

\* Ctrl+C: KeyboardInterrupt is no Exception, the handler of line 266 takes it.
PipeInterrupt ==
    /\ pl_pc \in { "wait", "run" }
    /\ pl_pc' = "ended"
    /\ pl_exit' = "interrupted"
    /\ UNCHANGED << pl_args, pl_run, pl_presses, pl_runs, notPipeVars >>

PipeNext ==
    \/ PipeStart
    \/ PipeWait
    \/ PipeRun
    \/ PipeInterrupt

\* ------------------------------------------------------------ pi_connection.py
NoOp == [ op |-> "none", client |-> "None", sftp |-> "None", opened |-> FALSE,
          raised |-> FALSE ]

\* Lines 21-22.
ConnInit ==
    /\ cn_client = "None"
    /\ cn_sftp = "None"
    /\ cn_live = 0
    /\ cn_opened = 0
    /\ cn_drops = 0
    /\ cn_overlap = FALSE
    /\ cn_last = NoOp

Conn == [ client |-> cn_client, sftp |-> cn_sftp, live |-> cn_live,
          opened |-> cn_opened, overlap |-> cn_overlap, raised |-> FALSE ]

\* What the network does to a connection attempt: the SSH connection is
\* refused, it is opened but the SFTP channel is not, or both are opened.
Nets == { "refused", "no sftp", "ok" }

AlreadyConnectedNever(client) == FALSE

\* Line 28: _client is set, its transport exists and is active.
AlreadyConnected(client) == client = "active"

\* connect(), lines 25-43.
Connect(c, net) ==
    IF AlreadyConnected(c.client) THEN c
    ELSE IF net = "refused"
    THEN [ c EXCEPT !.client = "unconnected", !.raised = TRUE ]
    ELSE LET open == [ c EXCEPT !.client = "active",
                                !.opened = c.opened + 1,
                                !.overlap = c.overlap \/ c.live > 0,
                                !.live = c.live + 1 ]
         IN  IF net = "no sftp"
             THEN [ open EXCEPT !.raised = TRUE ]
             ELSE [ open EXCEPT !.sftp = "open" ]

\* run_command, lines 46-56: connect() when _client is None, then
\* exec_command, which raises on a client that is not connected; the command
\* may exit with a code other than 0.
RunCommand(c, net, exitOk) ==
    LET d == IF c.client = "None" THEN Connect(c, net) ELSE c
    IN  IF d.raised THEN d
        ELSE [ d EXCEPT !.raised = d.client # "active" \/ ~exitOk ]

\* upload_file and download_file, lines 59-70: connect() when _sftp is None,
\* then the transfer, which raises on a missing or stale channel.
Transfer(c, net, transferOk) ==
    LET d == IF c.sftp = "None" THEN Connect(c, net) ELSE c
    IN  IF d.raised THEN d
        ELSE [ d EXCEPT !.raised = d.sftp # "open" \/ ~transferOk ]

\* The call op brought the module from c to d.
ConnCalled(op, d) ==
    /\ cn_client' = d.client
    /\ cn_sftp' = d.sftp
    /\ cn_live' = d.live
    /\ cn_opened' = d.opened
    /\ cn_overlap' = d.overlap
    /\ cn_last' = [ op |-> op, client |-> cn_client, sftp |-> cn_sftp,
                    opened |-> d.opened > cn_opened, raised |-> d.raised ]
    /\ UNCHANGED << cn_drops, notConnVars >>

ConnConnect == \E net \in Nets : ConnCalled("connect", Connect(Conn, net))

ConnRunCommand ==
    \E net \in Nets, exitOk \in BOOLEAN :
        ConnCalled("run_command", RunCommand(Conn, net, exitOk))

ConnUpload ==
    \E net \in Nets, transferOk \in BOOLEAN :
        ConnCalled("upload_file", Transfer(Conn, net, transferOk))

ConnDownload ==
    \E net \in Nets, transferOk \in BOOLEAN :
        ConnCalled("download_file", Transfer(Conn, net, transferOk))

\* disconnect(), lines 73-82.
ConnDisconnect ==
    /\ cn_client' = "None"
    /\ cn_sftp' = "None"
    /\ cn_live' = IF cn_client = "active" THEN cn_live - 1 ELSE cn_live
    /\ cn_opened' = 0
    /\ cn_drops' = 0
    /\ cn_last' = [ op |-> "disconnect", client |-> cn_client, sftp |-> cn_sftp,
                    opened |-> FALSE, raised |-> FALSE ]
    /\ UNCHANGED << cn_overlap, notConnVars >>

\* The connection is lost (the Pi reboots, the network goes away): the
\* transport of _client stops being active.
ConnDrop ==
    /\ cn_client = "active"
    /\ cn_drops < MaxDrops
    /\ cn_client' = "dead"
    /\ cn_sftp' = IF cn_sftp = "open" THEN "stale" ELSE cn_sftp
    /\ cn_live' = cn_live - 1
    /\ cn_drops' = cn_drops + 1
    /\ UNCHANGED << cn_opened, cn_overlap, cn_last, notConnVars >>

ConnNext ==
    \/ ConnConnect
    \/ ConnRunCommand
    \/ ConnUpload
    \/ ConnDownload
    \/ ConnDisconnect
    \/ ConnDrop

\* ------------------------------------------------------------ vision.py
VisionInit ==
    /\ ai_pc = "idle"
    /\ ai_max_retries = DEFAULT_MAX_RETRIES
    /\ ai_attempt = 0
    /\ ai_result = "none"
    /\ ai_log = << >>
    /\ ai_waits = << >>
    /\ ai_invocations = 0

\* What str(e) can be for an exception of generate_content or response.text.
Errors == { "429 Resource has been exhausted", "500 Internal error",
            "504 Deadline Exceeded", "response has no text" }

\* "429" in str(e)
RateLimited(e) == e \in { "429 Resource has been exhausted" }

ShouldRetryAnyError(e, attempt, max_retries) == attempt < max_retries - 1

\* Line 52.
ShouldRetry(e, attempt, max_retries) ==
    RateLimited(e) /\ attempt < max_retries - 1

\* Lines 39-45: analyze_image is called with a max_retries of at least 1
\* (its callers leave the default); a missing API key or an unreadable image
\* raises before the loop.
VisionStart ==
    /\ ai_pc \in { "idle", "returned", "raised" }
    /\ ai_invocations < MaxInvocations
    /\ ai_invocations' = ai_invocations + 1
    /\ ai_attempt' = 0
    /\ ai_log' = << >>
    /\ ai_waits' = << >>
    /\ \E max_retries \in 1..MaxRetries, keyOk \in BOOLEAN, imageOk \in BOOLEAN :
         /\ ai_max_retries' = max_retries
         /\ IF ~keyOk
            THEN ai_pc' = "raised" /\ ai_result' = "Missing GEMINI_API_KEY"
            ELSE IF ~imageOk
            THEN ai_pc' = "raised" /\ ai_result' = "cannot open image"
            ELSE ai_pc' = "call" /\ ai_result' = "none"
    /\ UNCHANGED notVisionVars

\* Lines 46-57: one iteration of the loop up to its return, its raise or its
\* sleep.
VisionCall ==
    /\ ai_pc = "call"
    /\ \E outcome \in { "text" } \cup Errors :
         /\ ai_log' = Append(ai_log, outcome)
         /\ IF outcome = "text"
            THEN /\ ai_pc' = "returned"
                 /\ ai_result' = "text"
                 /\ UNCHANGED ai_waits
            ELSE IF ShouldRetry(outcome, ai_attempt, ai_max_retries)
            THEN /\ ai_pc' = "sleep"
                 /\ ai_waits' = Append(ai_waits, BACKOFF * (ai_attempt + 1))
                 /\ UNCHANGED ai_result
            ELSE /\ ai_pc' = "raised"
                 /\ ai_result' = outcome
                 /\ UNCHANGED ai_waits
    /\ UNCHANGED << ai_max_retries, ai_attempt, ai_invocations, notVisionVars >>

\* time.sleep returns and the for of line 45 takes the next attempt; when
\* range(max_retries) is exhausted the function ends without a return
\* statement and returns None.
VisionWake ==
    /\ ai_pc = "sleep"
    /\ ai_attempt' = ai_attempt + 1
    /\ IF ai_attempt + 1 < ai_max_retries
       THEN ai_pc' = "call" /\ UNCHANGED ai_result
       ELSE ai_pc' = "returned" /\ ai_result' = "None"
    /\ UNCHANGED << ai_max_retries, ai_log, ai_waits, ai_invocations,
                    notVisionVars >>

VisionStep ==
    \/ VisionCall
    \/ VisionWake

VisionNext ==
    \/ VisionStart
    \/ VisionCall
    \/ VisionWake

\* ------------------------------------------------------------ initial state
NoTick == [ pre |-> "none", preStreak |-> 0, distressed |-> FALSE,
            pending |-> FALSE, pendingIn |-> "none", early |-> FALSE,
            elapsed |-> FALSE, first |-> TRUE, apart |-> TRUE,
            mid |-> "none", midStreak |-> 0, polled |-> "none",
            calls |-> << >>, startFailed |-> FALSE, failed |-> FALSE ]

\* main() lines 568-572, AlarmController.__init__, ButtonListener.__init__.
\* last_button_time = 0 and time.time() is an epoch time, so since_button
\* starts at its cap.
CtlInit ==
    /\ state = "MONITORING"
    /\ distress_streak = 0
    /\ since_button = COOLDOWN
    /\ pipeline_thread = 0
    /\ threads = {}
    /\ job_outcome = "none"
    /\ playing = FALSE
    /\ pressed = FALSE
    /\ listener = "off"
    /\ queued = 0
    /\ tick_error = FALSE
    /\ pressed_early = FALSE
    /\ pressed_in = "none"
    /\ lastTick = NoTick
    /\ dRun = 0
    /\ calmRun = 0
    /\ phase = "startup"
    /\ shutdown_calls = << >>
    /\ exit_playing = FALSE
    /\ honor = [ any |-> FALSE, gap |-> COOLDOWN ]
    /\ job_args = NoJob
    /\ ButtonInit
    /\ AlarmInit
    /\ PipeInit
    /\ ConnInit
    /\ VisionInit

\* No frame has been classified: the controller's specifications draw the
\* verdict of each frame as the input "distressed" of Tick.
PoseIdle ==
    /\ kps_data = << >>
    /\ img_h = Max(Heights)
    /\ pose_result = NoResult
    /\ pose_prev = NoResult
    /\ detect_result = NoResult

Init == CtlInit /\ PoseIdle

\* The frames the classifier is applied to: no person, or one person whose
\* nose and hips take every combination of the values below while the other
\* keypoints follow one of four poses.
PoseInit ==
    /\ CtlInit
    /\ kps_data \in Frames
    /\ img_h \in Heights
    /\ pose_result = NoResult
    /\ pose_prev = NoResult
    /\ detect_result = NoResult

\* ------------------------------------------------------------ actions
RunCap == DISTRESS_THRESHOLD + 1

Bump(n) == IF n < RunCap THEN n + 1 ELSE RunCap

\* The outcomes a tick can meet: a start command can fail only where one is
\* issued (the streak is counted in MONITORING, the alarm not playing), a stop
\* command only while the alarm is playing, and a thread can end within the
\* tick only if the tick can start one.
StartOutcomes == IF state = "MONITORING" /\ ~playing THEN BOOLEAN ELSE {TRUE}

StopOutcomes == IF playing THEN BOOLEAN ELSE {TRUE}

EndOutcomes == IF pressed THEN BOOLEAN ELSE {FALSE}

\* One iteration of the frame loop, for a frame that is distressed or not.
Tick ==
    /\ phase = "loop"
    /\ ~tick_error
    /\ UNCHANGED << listener, queued, phase, shutdown_calls, exit_playing,
                    sideVars >>
    /\ \E distressed \in BOOLEAN, startOk \in StartOutcomes,
          stopOk \in StopOutcomes, ends \in EndOutcomes :
        LET c == ReadFrame(Ctl, distressed)
            m == TickMid(c, stopOk, ends)
            e == TickEnd(c, distressed, startOk, stopOk, ends)
            inMon == m.state = "MONITORING" /\ ~m.raised
            inAlarm == m.state = "ALARM" /\ ~m.raised
        IN  /\ state' = e.state
            /\ distress_streak' = e.streak
            /\ since_button' = e.since
            /\ pipeline_thread' = e.thread
            /\ threads' = e.alive
            /\ job_outcome' = IF m.alive # InterruptBlock(c, stopOk).alive
                              THEN "raised" ELSE job_outcome
            /\ playing' = e.playing
            /\ pressed' = e.pressed
            /\ tick_error' = e.raised
            /\ pressed_early' = (e.pressed /\ pressed_early)
            /\ pressed_in' = IF e.pressed THEN pressed_in ELSE "none"
            /\ lastTick' =
                 [ pre |-> c.state, preStreak |-> c.streak,
                   distressed |-> distressed,
                   pending |-> c.pressed,
                   pendingIn |-> pressed_in,
                   early |-> pressed_early,
                   elapsed |-> since_button >= COOLDOWN,
                   first |-> ~honor.any,
                   apart |-> honor.gap >= COOLDOWN,
                   mid |-> m.state, midStreak |-> m.streak,
                   polled |-> IF m.state # "PIPELINE" THEN "none"
                              ELSE IF m.thread \in m.alive THEN "alive" ELSE "dead",
                   calls |-> e.calls,
                   startFailed |-> Has(e.calls, "alarm.start") /\ ~e.playing,
                   failed |-> IF e.state # "ALARM" THEN FALSE
                              ELSE IF Has(e.calls, "alarm.start") THEN ~e.playing
                              ELSE lastTick.failed ]
            /\ job_args' = IF e.alive = {} THEN NoJob ELSE e.job
            /\ honor' = IF Has(e.calls, "launch")
                        THEN [ any |-> TRUE, gap |-> 0 ]
                        ELSE honor
            /\ dRun' = IF inMon /\ distressed THEN Bump(dRun) ELSE 0
            /\ calmRun' = IF inAlarm /\ ~distressed THEN Bump(calmRun) ELSE 0

\* The button is pressed on the Pi: the remote script (uploaded by
\* _upload_script) prints one PRESSED line into the listener's channel.
Press ==
    /\ phase = "loop"
    /\ queued < MaxQueued
    /\ queued' = queued + 1
    /\ UNCHANGED << state, distress_streak, since_button, pipeline_thread,
                    threads, job_outcome, playing, pressed, listener,
                    tick_error, pressed_early, pressed_in, lastTick, dRun,
                    calmRun, runVars, sideVars >>

\* ButtonListener._loop lines 250-258: a PRESSED line is read, the flag is set.
ListenerRead ==
    /\ listener = "read"
    /\ queued > 0
    /\ queued' = queued - 1
    /\ pressed' = TRUE
    /\ listener' = "wait"
    /\ pressed_early' = (since_button < COOLDOWN)
    /\ pressed_in' = state
    /\ UNCHANGED << state, distress_streak, since_button, pipeline_thread,
                    threads, job_outcome, playing, tick_error, lastTick, dRun,
                    calmRun, runVars, sideVars >>

\* ButtonListener._loop lines 259-260: the listener sleeps until the flag is
\* cleared, then goes back to reading lines.
ListenerResume ==
    /\ listener = "wait"
    /\ ~pressed
    /\ listener' = "read"
    /\ UNCHANGED << state, distress_streak, since_button, pipeline_thread,
                    threads, job_outcome, playing, pressed, queued,
                    tick_error, pressed_early, pressed_in, lastTick, dRun,
                    calmRun, runVars, sideVars >>

\* ButtonListener._loop lines 261-266: connecting, uploading or reading raises;
\* the listener reports it, sleeps and connects again.  The lines left in the
\* old channel are gone with it.
ListenerFail ==
    /\ listener = "read"
    /\ queued' = 0
    /\ UNCHANGED << state, distress_streak, since_button, pipeline_thread,
                    threads, job_outcome, playing, pressed, listener,
                    tick_error, pressed_early, pressed_in, lastTick, dRun,
                    calmRun, runVars, sideVars >>

\* _run_pipeline returns: the pipeline thread ends.
JobFinish ==
    /\ phase = "loop"
    /\ \E j \in threads : threads' = threads \ {j}
    /\ job_outcome' = "finished"
    /\ job_args' = NoJob
    /\ UNCHANGED << state, distress_streak, since_button, pipeline_thread,
                    playing, pressed, listener, queued, tick_error,
                    pressed_early, pressed_in, lastTick, dRun, calmRun,
                    phase, shutdown_calls, exit_playing, honor, sideVars >>

\* _run_pipeline raises (analyze_image, text_to_speech and cv2.imwrite are not
\* inside its try): the pipeline thread ends with the exception.
JobFail ==
    /\ phase = "loop"
    /\ \E j \in threads : threads' = threads \ {j}
    /\ job_outcome' = "raised"
    /\ job_args' = NoJob
    /\ UNCHANGED << state, distress_streak, since_button, pipeline_thread,
                    playing, pressed, listener, queued, tick_error,
                    pressed_early, pressed_in, lastTick, dRun, calmRun,
                    phase, shutdown_calls, exit_playing, honor, sideVars >>

\* One second passes on the wall clock.
Advance ==
    /\ phase = "loop"
    /\ since_button < COOLDOWN
    /\ since_button' = since_button + 1
    /\ honor' = [ honor EXCEPT !.gap = IF @ < COOLDOWN THEN @ + 1 ELSE @ ]
    /\ UNCHANGED << state, distress_streak, pipeline_thread, threads,
                    job_outcome, playing, pressed, listener, queued,
                    tick_error, pressed_early, pressed_in, lastTick, dRun,
                    calmRun, phase, shutdown_calls, exit_playing, job_args,
                    sideVars >>

\* main() lines 546-572, before the try of line 574: alarm.upload() connects to
\* the Pi and writes the sound file (AlarmController.upload has no handler, and
\* neither has main() around it), then button.start() starts the listener
\* thread.  When the upload raises, the exception leaves main().
Startup ==
    /\ phase = "startup"
    /\ \E uploadOk \in BOOLEAN :
         IF uploadOk
         THEN phase' = "loop" /\ listener' = "read"
         ELSE phase' = "crashed" /\ UNCHANGED listener
    /\ UNCHANGED << state, distress_streak, since_button, pipeline_thread,
                    threads, job_outcome, playing, pressed, queued,
                    tick_error, pressed_early, pressed_in, lastTick, dRun,
                    calmRun, shutdown_calls, exit_playing, honor, job_args,
                    sideVars >>

\* The finally block of main(), lines 640-649, whatever ended the frame loop.
Shutdown ==
    /\ phase = "loop"
    /\ \E stopOk \in StopOutcomes :
         LET f == FinallyBlock(Ctl, stopOk)
         IN  /\ playing' = f.playing
             /\ shutdown_calls' = f.calls
    /\ phase' = "stopped"
    /\ listener' = "off"
    /\ exit_playing' = playing
    /\ UNCHANGED << state, distress_streak, since_button, pipeline_thread,
                    threads, job_outcome, pressed, queued, tick_error,
                    pressed_early, pressed_in, lastTick, dRun, calmRun,
                    honor, job_args, sideVars >>

\* _read_mjpeg_frames returns (the stream ended or a read failed, lines 86-88):
\* the for loop of line 575 is exhausted.
ExitFrameEnd == ~tick_error /\ Shutdown

\* q or ESC at line 634: break.
ExitQuit == ~tick_error /\ Shutdown

\* Ctrl-C: the except of line 638.
ExitInterrupt == ~tick_error /\ Shutdown

\* Any other exception in a tick: the finally block runs, then the exception
\* leaves main().
ExitError == Shutdown

Next ==
    \/ Startup
    \/ Tick
    \/ Press
    \/ ListenerRead
    \/ ListenerResume
    \/ ListenerFail
    \/ JobFinish
    \/ JobFail
    \/ Advance
    \/ ExitFrameEnd
    \/ ExitQuit
    \/ ExitInterrupt
    \/ ExitError

Spec == Init /\ [][Next]_vars

\* The button flag alone: the listener thread, the remote script and the
\* main thread's check and consume, in every interleaving.
ButtonSpec == Init /\ [][ButtonNext]_vars

\* The AlarmController alone, called by several threads in any order.
AlarmSpec == Init /\ [][AlarmNext]_vars

\* _process_frame is applied to the frame.
ProcessFrame ==
    /\ ~pose_result.done
    /\ pose_result' = ProcessFrameResult(kps_data, img_h)
    /\ pose_prev' = pose_result
    /\ UNCHANGED << kps_data, img_h, detect_result, notPoseVars >>

\* detect_distress of pose_detector.py is applied to the same frame.
DetectFrame ==
    /\ ~detect_result.done
    /\ detect_result' = DetectDistress(kps_data, img_h)
    /\ UNCHANGED << kps_data, img_h, pose_result, pose_prev, notPoseVars >>

\* The frame loop of main(), line 575: the next frame of the stream is read
\* while pose_result still holds the result of the frame before.
NextFrame ==
    /\ pose_result.done
    /\ kps_data' \in LaterFrames
    /\ pose_result' = [ pose_result EXCEPT !.done = FALSE ]
    /\ pose_prev' = NoResult
    /\ detect_result' = NoResult
    /\ UNCHANGED << img_h, notPoseVars >>

PoseNext ==
    \/ ProcessFrame
    \/ DetectFrame
    \/ NextFrame

\* pipeline.py alone, for every command line and every outcome of its
\* collaborators.
PipeSpec == Init /\ [][PipeNext]_vars

\* pi_connection.py alone, under every sequence of calls and losses of the
\* connection.
ConnSpec == Init /\ [][ConnNext]_vars

\* analyze_image alone: a call that has started goes on (generate_content
\* returns or raises, time.sleep returns).
VisionSpec == Init /\ [][VisionNext]_vars /\ WF_vars(VisionStep)

\* The classifier alone, applied to every frame of Frames.
PoseSpec == PoseInit /\ [][PoseNext]_vars

\* Liveness: frames keep arriving (the frame loop is not left, and it keeps
\* iterating during an escalation), and a running escalation job ends, by
\* returning or by raising.
PollTick == state = "PIPELINE" /\ Tick

LiveNext ==
    \/ Startup
    \/ Tick
    \/ Press
    \/ ListenerRead
    \/ ListenerResume
    \/ ListenerFail
    \/ JobFinish
    \/ JobFail
    \/ Advance

LiveSpec ==
    /\ Init
    /\ [][LiveNext]_vars
    /\ WF_vars(PollTick)
    /\ WF_vars(JobFinish \/ JobFail)

\* ------------------------------------------------------------ properties
Started == Has(lastTick.calls, "alarm.start")

Stopped == Has(lastTick.calls, "alarm.stop")

Launched == Has(lastTick.calls, "launch")

\* C1 -- entry debounce.  A run of k consecutive distressed ticks handled by
\* the MONITORING branch (it starts from streak 0) leaves the controller in
\* MONITORING with streak k and the alarm not started while k < 5, and enters
\* ALARM with alarm.start() called on the 5th tick exactly; a calm tick in
\* MONITORING resets the streak to 0 and starts nothing.
C1_EntryDebounce ==
    /\ dRun <= DISTRESS_THRESHOLD
    /\ dRun \in 1..(DISTRESS_THRESHOLD - 1) =>
          /\ state = "MONITORING"
          /\ distress_streak = dRun
          /\ ~Started
          /\ ~playing
    /\ dRun = DISTRESS_THRESHOLD =>
          /\ state = "ALARM"
          /\ Started
    /\ Started => dRun = DISTRESS_THRESHOLD
    /\ (lastTick.mid = "MONITORING" /\ ~lastTick.distressed) =>
          /\ state = "MONITORING"
          /\ distress_streak = 0
          /\ ~Started
          /\ ~playing

C1_Witness ==
    /\ dRun = DISTRESS_THRESHOLD
    /\ lastTick.pre = "MONITORING"
    /\ lastTick.preStreak = DISTRESS_THRESHOLD - 1
    /\ ~lastTick.pending
    /\ state = "ALARM"
    /\ playing

\* C2 -- exit hysteresis.  A run of k consecutive calm ticks handled by the
\* ALARM branch (it starts from streak 5) leaves the controller in ALARM with
\* streak 5 - k and alarm.stop() not called while k < 5; the 5th calls
\* alarm.stop() and leads to MONITORING with streak 0, and the ALARM branch
\* leaves ALARM in no other way.  A distressed tick in ALARM puts the streak
\* back to 5, so the count starts again.
C2_ExitHysteresis ==
    /\ calmRun <= DISTRESS_THRESHOLD
    /\ calmRun \in 1..(DISTRESS_THRESHOLD - 1) =>
          /\ state = "ALARM"
          /\ distress_streak = DISTRESS_THRESHOLD - calmRun
          /\ ~Stopped
    /\ calmRun = DISTRESS_THRESHOLD =>
          /\ state = "MONITORING"
          /\ distress_streak = 0
          /\ Stopped
          /\ ~playing
    /\ (lastTick.mid = "ALARM" /\ lastTick.distressed) =>
          /\ state = "ALARM"
          /\ distress_streak = DISTRESS_THRESHOLD
          /\ calmRun = 0
          /\ ~Stopped
    /\ (lastTick.mid = "ALARM" /\ state # "ALARM") =>
          calmRun = DISTRESS_THRESHOLD

C2_Witness ==
    /\ calmRun = DISTRESS_THRESHOLD
    /\ lastTick.pre = "ALARM"
    /\ ~lastTick.pending
    /\ lastTick.preStreak = 1
    /\ state = "MONITORING"
    /\ Stopped

\* C3 -- at most one escalation job is in flight: never two pipeline threads
\* alive, a job is launched only by a tick that began outside PIPELINE, and
\* the controller is outside PIPELINE only when no pipeline thread is alive.
C3_OneJobInFlight ==
    /\ Cardinality(threads) <= 1
    /\ Launched => lastTick.pre # "PIPELINE"
    /\ state # "PIPELINE" => threads = {}
    /\ (lastTick.pre = "PIPELINE" /\ state # "PIPELINE") => lastTick.polled = "dead"

C3_Witness ==
    /\ state = "PIPELINE"
    /\ Cardinality(threads) = 1
    /\ pressed
    /\ lastTick.pre = "PIPELINE"
    /\ lastTick.pending

\* C4 -- a press seen in ALARM with the cooldown elapsed is honored in that
\* tick for every streak 1..5: alarm.stop() is called, and before the job is
\* launched; the interrupt block leaves the controller in PIPELINE with the
\* streak it found; the alarm is not playing afterwards.
C4_AlarmInterrupt ==
    /\ state = "ALARM" => distress_streak \in 1..DISTRESS_THRESHOLD
    /\ (lastTick.pre = "ALARM" /\ lastTick.pending /\ lastTick.elapsed) =>
          /\ Launched
          /\ Stopped
          /\ IndexOf(lastTick.calls, "alarm.stop") < IndexOf(lastTick.calls, "launch")
          /\ lastTick.mid = "PIPELINE"
          /\ lastTick.midStreak = lastTick.preStreak
          /\ state = "PIPELINE" => distress_streak = lastTick.preStreak
          /\ ~playing

C4_Witness ==
    /\ lastTick.pre = "ALARM"
    /\ lastTick.preStreak = 2
    /\ lastTick.pending
    /\ lastTick.elapsed
    /\ Launched
    /\ state = "PIPELINE"
    /\ distress_streak = 2

\* C5 -- a press that arrives (sets the flag) while the controller is in
\* PIPELINE never causes an escalation job to be launched, neither during
\* the running escalation nor after it.
C5_PressInEscalatingNeverLaunches ==
    Launched => lastTick.pendingIn # "PIPELINE"

\* C6 -- a second press that arrives less than COOLDOWN seconds after the
\* first was honored, while the first one's escalation job is in progress, is
\* never honored (no second job), whatever the duration of the job.
C6_EarlyPressNeverHonored ==
    Launched => ~(lastTick.early /\ lastTick.pendingIn = "PIPELINE")

\* C7 -- interrupt handling runs before evidence handling: a tick that finds
\* a press pending in MONITORING with the cooldown elapsed launches the job,
\* does not call alarm.start(), does not pass through ALARM and does not
\* increment the streak, whatever the frame's evidence and the streak.
C7_InterruptFirst ==
    (lastTick.pre = "MONITORING" /\ lastTick.pending /\ lastTick.elapsed) =>
        /\ Launched
        /\ ~Started
        /\ lastTick.mid = "PIPELINE"
        /\ lastTick.midStreak = lastTick.preStreak
        /\ state # "ALARM"
        /\ state = "PIPELINE" => distress_streak = lastTick.preStreak
        /\ distress_streak <= lastTick.preStreak
        /\ ~playing

C7_Witness ==
    /\ lastTick.pre = "MONITORING"
    /\ lastTick.preStreak = DISTRESS_THRESHOLD - 1
    /\ lastTick.distressed
    /\ lastTick.pending
    /\ lastTick.elapsed
    /\ Launched
    /\ state = "PIPELINE"
    /\ distress_streak = DISTRESS_THRESHOLD - 1

\* C8 -- in PIPELINE the evidence changes neither state nor streak and the
\* alarm is never started; the tick that finds the job ended leaves the
\* controller in MONITORING with streak 0 and the alarm off; alarm.start()
\* is called only on the 5th of 5 consecutive distressed MONITORING ticks.
C8_ColdRestart ==
    /\ state = "PIPELINE" => ~playing
    /\ (lastTick.mid = "PIPELINE" /\ lastTick.polled = "alive") =>
          /\ state = "PIPELINE"
          /\ distress_streak = lastTick.midStreak
          /\ ~Started
    /\ (lastTick.mid = "PIPELINE" /\ lastTick.polled = "dead") =>
          /\ state = "MONITORING"
          /\ distress_streak = 0
          /\ ~playing
          /\ ~Started
          /\ dRun = 0
    /\ Started =>
          /\ lastTick.mid = "MONITORING"
          /\ dRun = DISTRESS_THRESHOLD

C8_Witness ==
    /\ lastTick.pre = "PIPELINE"
    /\ lastTick.preStreak = DISTRESS_THRESHOLD - 1
    /\ lastTick.distressed
    /\ lastTick.polled = "dead"
    /\ state = "MONITORING"
    /\ distress_streak = 0

\* C9 -- the frame loop never waits for the job: a tick can always run while
\* the controller is in PIPELINE, and once the job thread has ended, by
\* returning or by raising, the controller comes back to MONITORING.
C9_EscalationEnds ==
    /\ [](state = "PIPELINE" => ENABLED Tick)
    /\ (state = "PIPELINE") ~> (state = "MONITORING" /\ distress_streak = 0)

C9_Witness ==
    /\ lastTick.pre = "PIPELINE"
    /\ lastTick.polled = "dead"
    /\ job_outcome = "raised"
    /\ state = "MONITORING"
    /\ distress_streak = 0

\* The controller's own variables at the end of a tick.
Control(c) == << c.state, c.streak, c.since, c.thread, c.alive, c.pressed, c.raised >>

\* C10 -- a failed alarm start is tolerated: the tick that calls
\* alarm.start() ends in ALARM whether or not the start succeeded, no
\* exception leaves a tick, and from ALARM every tick takes the controller to
\* the same state, streak, cooldown and job whether the alarm is playing or
\* not.
C10_StartFailureTolerated ==
    /\ ~tick_error
    /\ Started => state = "ALARM" /\ distress_streak = DISTRESS_THRESHOLD
    /\ state = "ALARM" =>
         \A d, startOk, stopOk, ends \in BOOLEAN :
            LET on == TickEnd([Ctl EXCEPT !.playing = TRUE], d, startOk, stopOk, ends)
                off == TickEnd([Ctl EXCEPT !.playing = FALSE], d, startOk, stopOk, ends)
            IN  /\ Control(on) = Control(off)
                /\ ~on.raised
                /\ on.state # "ALARM" => on.playing = off.playing

C10_Witness ==
    /\ lastTick.pre = "ALARM"
    /\ state = "ALARM"
    /\ ~playing
    /\ calmRun = 2

\* C11 -- no failure of a collaborator ends monitoring: an alarm actuator that
\* cannot be reached, at upload or at start or stop, a failing button listener
\* and a failing escalation job all leave the frame loop running.
C11_CollaboratorFailureNeverHalts == phase # "crashed"

\* C12 -- whatever ends the frame loop, the finally block stops the alarm if
\* it is playing, then stops the button listener, then releases the frame
\* source; afterwards the alarm is not playing (its playing flag is clear).
C12_ShutdownOrder ==
    phase = "stopped" =>
        /\ ~playing
        /\ Has(shutdown_calls, "alarm.client.close")
        /\ Has(shutdown_calls, "button.stop")
        /\ Has(shutdown_calls, "stream.terminate")
        /\ IndexOf(shutdown_calls, "alarm.client.close")
             < IndexOf(shutdown_calls, "button.stop")
        /\ IndexOf(shutdown_calls, "button.stop")
             < IndexOf(shutdown_calls, "stream.terminate")
        /\ exit_playing =>
             /\ Has(shutdown_calls, "alarm.stop")
             /\ IndexOf(shutdown_calls, "alarm.stop")
                  < IndexOf(shutdown_calls, "button.stop")

C12_Witness ==
    /\ phase = "stopped"
    /\ state = "ALARM"
    /\ exit_playing
    /\ ~playing

\* C17 -- a press pending in MONITORING or ALARM less than COOLDOWN seconds
\* after the last honored press is consumed and discarded: the tick starts no
\* job, leaves the cooldown clock alone, and ends with the state, the streak,
\* the alarm and the job a tick without the press would have ended with.
C17_DiscardedPressNoEffect ==
    /\ (phase = "loop" /\ pressed /\ state # "PIPELINE" /\ since_button < COOLDOWN) =>
         \A d, startOk, stopOk \in BOOLEAN :
            LET with == TickEnd(Ctl, d, startOk, stopOk, FALSE)
                without == TickEnd([Ctl EXCEPT !.pressed = FALSE],
                                   d, startOk, stopOk, FALSE)
            IN  /\ ~with.pressed
                /\ ~Has(with.calls, "launch")
                /\ with.since = since_button
                /\ with.state = without.state
                /\ with.streak = without.streak
                /\ with.playing = without.playing
                /\ with.since = without.since
                /\ with.thread = without.thread
                /\ with.alive = without.alive
                /\ with.raised = without.raised
    /\ (lastTick.pending /\ lastTick.pre # "PIPELINE" /\ ~lastTick.elapsed) =>
         /\ Has(lastTick.calls, "consume")
         /\ ~Launched
         /\ lastTick.mid = lastTick.pre
         /\ lastTick.midStreak = lastTick.preStreak

C17_Witness ==
    /\ lastTick.pending
    /\ lastTick.pre = "ALARM"
    /\ ~lastTick.elapsed
    /\ Has(lastTick.calls, "consume")
    /\ state = "ALARM"
    /\ ~pressed

\* C18 -- the streak stays within 0..DISTRESS_THRESHOLD; in ALARM it is within
\* 1..DISTRESS_THRESHOLD and in MONITORING within 0..DISTRESS_THRESHOLD-1.
C18_StreakInvariant ==
    /\ distress_streak \in 0..DISTRESS_THRESHOLD
    /\ state = "ALARM" => distress_streak \in 1..DISTRESS_THRESHOLD
    /\ state = "MONITORING" => distress_streak \in 0..(DISTRESS_THRESHOLD - 1)

C18_Witness ==
    /\ lastTick.pre = "ALARM"
    /\ lastTick.distressed
    /\ lastTick.preStreak = 1
    /\ state = "ALARM"
    /\ distress_streak = DISTRESS_THRESHOLD

\* C15 -- no edge of the flag is lost or counted twice: the listener never
\* sets the flag while it is set, every consume() clears a flag that is set,
\* the sets and the consumes alternate, and the flag that consume() clears is
\* the one the check of the same tick saw (no set comes between them).
C15_EdgesConsumedOnce ==
    /\ ~edge_overwritten
    /\ ~consume_empty
    /\ edges_consumed <= edges_set
    /\ edges_set <= edges_consumed + 1
    /\ bl_pressed <=> (edges_set = edges_consumed + 1)
    /\ main_at = "consume" => bl_pressed /\ checked_edge = edges_set
    /\ bl_pressed => bl_loop = "wait"

C15_Witness ==
    /\ edges_set = 2
    /\ edges_consumed = 2
    /\ ~bl_pressed
    /\ bl_channel # << >>

\* C16 -- presses made while an earlier press is pending raise no further
\* interrupt after the pending one is consumed: the flag is never set from a
\* line printed while the flag was set.
C16_PendingPressesCoalesce == ~pressed_stale

\* C13 -- start() and stop() are idempotent in any sequence of calls: a
\* start() that finds the alarm playing issues no command and leaves the flag
\* set, a stop() that finds it not playing issues no command and leaves the
\* flag clear, and at most one playback loop is launched between two stops.
C13_StartStopIdempotent ==
    /\ al_launched <= 1
    /\ al_playing <=> (al_launched = 1)
    /\ \A t \in Callers : al_pc[t] = "start:exec" => ~al_playing
    /\ \A t \in Callers : al_pc[t] = "stop:exec" => al_playing
    /\ (al_last.op = "start" /\ al_last.was) => (al_last.now /\ ~al_last.issued)
    /\ (al_last.op = "stop" /\ ~al_last.was) => (~al_last.now /\ ~al_last.issued)

C13_Witness ==
    /\ al_last = [ op |-> "start", was |-> TRUE, now |-> TRUE, issued |-> FALSE ]
    /\ al_playing
    /\ al_launched = 1

\* C14 -- every read and every write of _playing, in start, stop, is_playing
\* and close, is made by a thread that holds the lock.
C14_EveryAccessUnderLock == al_unguarded = {}

\* The keypoints of a skeleton that are visible.
Visible(sk) == { k \in 0..16 : sk[k][3] >= KP_CONF }

Fallen(person) == << person, "head below hips - possible fall" >>

\* C19 -- a skeleton in which no keypoint is visible, whatever its
\* coordinates and the frame height, yields no reason and no anatomical site,
\* and the frame is not distressed.
C19_NothingVisibleNothingFound ==
    (pose_result.done /\ Len(kps_data) = 1 /\ Visible(kps_data[1]) = {}) =>
        /\ pose_result.detections = << >>
        /\ ~pose_result.is_distressed
        /\ pose_result.anatomical_sites = {}
        /\ RunDistressChecks(kps_data[1], img_h) = << >>
        /\ GetAnatomicalSites(kps_data[1]) = {}

C19_Witness ==
    /\ pose_result.done
    /\ Len(kps_data) = 1
    /\ Visible(kps_data[1]) = {}
    /\ kps_data[1][NOSE][2] = 150
    /\ kps_data[1][L_HIP][2] = 100
    /\ kps_data[1][L_ANKLE][1] > 500
    /\ ~pose_result.is_distressed

Sum2(sk, a, b) == << 2 * (sk[a][1] + sk[b][1]), 2 * (sk[a][2] + sk[b][2]) >>

Sum4(sk, a, b, c, d) ==
    << sk[a][1] + sk[b][1] + sk[c][1] + sk[d][1],
       sk[a][2] + sk[b][2] + sk[c][2] + sk[d][2] >>

SiteRules(sk) ==
    { [ name |-> "sternum_cpr", needs |-> { L_SHOULDER, R_SHOULDER },
        at |-> Sum2(sk, L_SHOULDER, R_SHOULDER) ],
      [ name |-> "left_outer_thigh_epipen", needs |-> { L_HIP, L_KNEE },
        at |-> Sum2(sk, L_HIP, L_KNEE) ],
      [ name |-> "right_outer_thigh_epipen", needs |-> { R_HIP, R_KNEE },
        at |-> Sum2(sk, R_HIP, R_KNEE) ],
      [ name |-> "left_neck_pulse", needs |-> { L_EAR, L_SHOULDER },
        at |-> Sum2(sk, L_EAR, L_SHOULDER) ],
      [ name |-> "right_neck_pulse", needs |-> { R_EAR, R_SHOULDER },
        at |-> Sum2(sk, R_EAR, R_SHOULDER) ],
      [ name |-> "chest_center_aed",
        needs |-> { L_SHOULDER, R_SHOULDER, L_HIP, R_HIP },
        at |-> Sum4(sk, L_SHOULDER, R_SHOULDER, L_HIP, R_HIP) ] }

\* C22 -- _get_anatomical_sites returns exactly the sites whose inputs are all
\* visible, each at the midpoint of its inputs, and no other item: a site with
\* a missing input is left out.
C22_SitesExactlyVisiblePairs ==
    (pose_result.done /\ Len(kps_data) = 1) =>
        LET sk == kps_data[1]
            due == { r \in SiteRules(sk) : r.needs \subseteq Visible(sk) }
        IN  /\ GetAnatomicalSites(sk) = { << r.name, r.at >> : r \in due }
            /\ pose_result.anatomical_sites = { << 1, r.name, r.at >> : r \in due }

C22_Witness ==
    /\ pose_result.done
    /\ Len(kps_data) = 1
    /\ Visible(kps_data[1]) \cap SiteInputs
         = { L_SHOULDER, R_SHOULDER, L_HIP, R_HIP, R_EAR }
    /\ { site[2] : site \in pose_result.anatomical_sites }
         = { "sternum_cpr", "chest_center_aed", "right_neck_pulse" }

HandReasons ==
    { "hands above head - distress", "hands covering face - distress",
      "hand near face - possible distress" }

\* The reasons of person 1 in the result, in order.
ReasonsOf(person) ==
    LET ds == pose_result.detections
        RECURSIVE Pick(_)
        Pick(i) == IF i > Len(ds) THEN << >>
                   ELSE (IF ds[i][1] = person THEN << ds[i][2] >> ELSE << >>)
                        \o Pick(i + 1)
    IN  Pick(1)

\* C21 -- the hands check appends at most one of its three reasons: with the
\* nose and both shoulders visible, a visible wrist above the nose gives
\* "hands above head"; otherwise two wrists in the face zone (nose.y <=
\* wrist.y < face_zone_bottom) give "hands covering face"; otherwise one
\* wrist in the face zone gives "hand near face"; otherwise none.
C21_HandsTiering ==
    (pose_result.done /\ Len(kps_data) = 1) =>
        LET sk == kps_data[1]
            V == Visible(sk)
            gate == { NOSE, L_SHOULDER, R_SHOULDER } \subseteq V
            head_y == sk[NOSE][2]
            s2 == sk[L_SHOULDER][2] + sk[R_SHOULDER][2]
            zone4 == 2 * s2 + Abs(s2 - 2 * head_y)
            wrists == { L_WRIST, R_WRIST } \cap V
            above == { w \in wrists : sk[w][2] < head_y }
            face == { w \in wrists : head_y <= sk[w][2] /\ 4 * sk[w][2] < zone4 }
            tier == IF ~gate THEN 0
                    ELSE IF above # {} THEN 1
                    ELSE IF Cardinality(face) = 2 THEN 2
                    ELSE IF Cardinality(face) = 1 THEN 3
                    ELSE 0
            rs == ReasonsOf(1)
            found == { i \in 1..Len(rs) : rs[i] \in HandReasons }
            detect == DetectCheckHands(Kp(sk, NOSE),
                                       Mid(Kp(sk, L_SHOULDER), Kp(sk, R_SHOULDER)),
                                       Kp(sk, L_WRIST), Kp(sk, R_WRIST))
        IN  /\ Cardinality(found) <= 1
            /\ Has(rs, "hands above head - distress") <=> (tier = 1)
            /\ Has(rs, "hands covering face - distress") <=> (tier = 2)
            /\ Has(rs, "hand near face - possible distress") <=> (tier = 3)
            /\ Len(detect) <= 1
            /\ Has(detect, "hands above head - distress posture") <=> (tier = 1)
            /\ Has(detect, "hands covering face - distress posture") <=> (tier = 2)
            /\ Has(detect, "hand near face - possible distress") <=> (tier = 3)

C21_Witness ==
    /\ pose_result.done
    /\ Len(kps_data) = 1
    /\ { NOSE, L_SHOULDER, R_SHOULDER, L_WRIST, R_WRIST } \subseteq Visible(kps_data[1])
    /\ kps_data[1][L_WRIST][2] = 99
    /\ kps_data[1][R_WRIST][2] = 100
    /\ Has(ReasonsOf(1), "hands above head - distress")
    /\ ~Has(ReasonsOf(1), "hands covering face - distress")

\* Other places an unseen keypoint could have been reported at.
Elsewhere == { << 0, 0 >>, << 600, 470 >> }

Moved(sk, k, p) == [ sk EXCEPT ![k] = << p[1], p[2], sk[k][3] >> ]

\* C23 -- a keypoint is visible iff its confidence is at least KP_CONF; each
\* reason appears only when the keypoints its check needs are visible; and
\* the coordinates of an invisible keypoint change neither the reasons nor
\* the sites.
C23_VisibilityGating ==
    (pose_result.done /\ Len(kps_data) = 1) =>
        LET sk == kps_data[1]
            V == Visible(sk)
            rs == ReasonsOf(1)
        IN  /\ \A k \in 0..16 : (Kp(sk, k) # None) <=> (sk[k][3] >= KP_CONF)
            /\ \A k \in 0..16 : Kp(sk, k) # None => Kp(sk, k) = sk[k]
            /\ Has(rs, "head below hips - possible fall")
                 => { NOSE, L_HIP, R_HIP } \subseteq V
            /\ Has(rs, "torso horizontal - lying down")
                 => { L_SHOULDER, R_SHOULDER, L_HIP, R_HIP } \subseteq V
            /\ (\E i \in 1..Len(rs) : rs[i] \in HandReasons)
                 => { NOSE, L_SHOULDER, R_SHOULDER } \subseteq V
            /\ Has(rs, "crouched/curled posture")
                 => { NOSE, L_SHOULDER, R_SHOULDER, L_HIP, R_HIP } \subseteq V
            /\ Has(rs, "body very low - possible collapse")
                 => Cardinality(V \cap { NOSE, L_SHOULDER, R_SHOULDER, L_HIP, R_HIP }) >= 3
            /\ \A k \in (0..16) \ V : \A p \in Elsewhere :
                 /\ RunDistressChecks(Moved(sk, k, p), img_h) = rs
                 /\ GetAnatomicalSites(Moved(sk, k, p)) = GetAnatomicalSites(sk)

C23_Witness ==
    /\ pose_result.done
    /\ Len(kps_data) = 1
    /\ kps_data[1][NOSE][3] = KP_CONF
    /\ kps_data[1][L_HIP][3] = KP_CONF
    /\ kps_data[1][R_HIP][3] = KP_CONF
    /\ kps_data[1][L_SHOULDER][3] = Hidden
    /\ kps_data[1][L_WRIST][2] = 380
    /\ Has(ReasonsOf(1), "head below hips - possible fall")
    /\ ~Has(ReasonsOf(1), "torso horizontal - lying down")
    /\ ~Has(ReasonsOf(1), "crouched/curled posture")
    /\ ~Has(ReasonsOf(1), "hands above head - distress")

\* C24 -- the bounding-box check is evaluated only with at least 4 of its
\* nine points visible and fires iff the box is higher than 0 and more than
\* 1.8 times as wide as high; a box of height 0 does not fire.
C24_BoundingBoxCheck ==
    (pose_result.done /\ Len(kps_data) = 1) =>
        LET sk == kps_data[1]
            seen == BoxPoints \cap Visible(sk)
            bw == Max({ sk[k][1] : k \in seen }) - Min({ sk[k][1] : k \in seen })
            bh == Max({ sk[k][2] : k \in seen }) - Min({ sk[k][2] : k \in seen })
            due == Cardinality(seen) >= 4 /\ bh > 0 /\ 10 * bw > 18 * bh
            detect == DetectCheckSpread(<< Kp(sk, NOSE), Kp(sk, L_SHOULDER),
                                          Kp(sk, R_SHOULDER), Kp(sk, L_HIP),
                                          Kp(sk, R_HIP), Kp(sk, L_ANKLE),
                                          Kp(sk, R_ANKLE), Kp(sk, L_WRIST),
                                          Kp(sk, R_WRIST) >>)
        IN  /\ Has(ReasonsOf(1), "body spread horizontal - on the ground") <=> due
            /\ (detect # << >>) <=> due

C24_Witness ==
    /\ pose_result.done
    /\ Len(kps_data) = 1
    /\ Cardinality(BoxPoints \cap Visible(kps_data[1])) >= 4
    /\ \A k \in BoxPoints \cap Visible(kps_data[1]) : kps_data[1][k][2] = 300
    /\ kps_data[1][R_WRIST][1] = 119
    /\ R_WRIST \in Visible(kps_data[1])
    /\ ~Has(ReasonsOf(1), "body spread horizontal - on the ground")

\* C25 -- the evidence of a frame is, person by person in order, that
\* person's reasons under the label "Person i", the sites are each person's
\* sites under the same label, is_distressed holds iff some person has a
\* reason, a frame without persons gives no evidence and no distress, and
\* nothing of the result comes from an earlier frame.
C25_EvidencePerFrame ==
    pose_result.done =>
        LET n == Len(kps_data)
            ds == pose_result.detections
        IN  /\ pose_result.num_persons = n
            /\ \A i \in 1..Len(ds) : ds[i][1] \in 1..n
            /\ \A i \in 1..Len(ds), j \in 1..Len(ds) : i < j => ds[i][1] <= ds[j][1]
            /\ \A p \in 1..n : ReasonsOf(p) = RunDistressChecks(kps_data[p], img_h)
            /\ \A s \in pose_result.anatomical_sites : s[1] \in 1..n
            /\ \A p \in 1..n :
                 { << s[2], s[3] >> : s \in { t \in pose_result.anatomical_sites : t[1] = p } }
                     = GetAnatomicalSites(kps_data[p])
            /\ pose_result.is_distressed <=> Len(ds) > 0
            /\ pose_result.is_distressed
                 <=> \E p \in 1..n : RunDistressChecks(kps_data[p], img_h) # << >>
            /\ n = 0 => ds = << >> /\ pose_result.anatomical_sites = {}
                        /\ ~pose_result.is_distressed

C25_Witness ==
    /\ pose_result.done
    /\ pose_prev.detections # << >>
    /\ pose_prev.num_persons = 3
    /\ Len(kps_data) = 2
    /\ ReasonsOf(1) = << >>
    /\ ReasonsOf(2) # << >>
    /\ pose_result.is_distressed

Count(calls, c) == Cardinality({ i \in 1..Len(calls) : calls[i] = c })

\* C26 -- run_pipeline: when detect_distress reports no distress,
\* analyze_image is not called and what is returned is the fixed no-distress
\* response with no audio path; when it reports distress, analyze_image is
\* called exactly once; with text_only neither text_to_speech nor
\* play_audio_on_pi is called, and with play false play_audio_on_pi is not.
C26_FastPath ==
    /\ pl_run.pose = "calm" =>
         /\ Count(pl_run.calls, "analyze_image") = 0
         /\ ~pl_run.raised => pl_run.result = << NO_DISTRESS_RESPONSE, "None" >>
    /\ pl_run.pose = "distress" => Count(pl_run.calls, "analyze_image") = 1
    /\ pl_args.text_only =>
         /\ Count(pl_run.calls, "text_to_speech") = 0
         /\ Count(pl_run.calls, "play_audio_on_pi") = 0
    /\ ~pl_args.play => Count(pl_run.calls, "play_audio_on_pi") = 0

C26_Witness ==
    /\ pl_run.pose = "calm"
    /\ ~pl_run.raised
    /\ ~pl_args.text_only
    /\ pl_args.play
    /\ pl_run.calls = << "capture_image_remote", "detect_distress",
                        "text_to_speech", "play_audio_on_pi" >>
    /\ pl_run.result = << NO_DISTRESS_RESPONSE, "None" >>

\* C29 -- run_button_mode loops until Ctrl+C: every press is followed by
\* exactly one run_pipeline, an error of a run is caught and the loop waits
\* for the next press, and no failure, of a run or of the remote wait
\* command, ends the loop.
C29_ButtonLoopUntilInterrupt ==
    pl_args.mode = "button" =>
        /\ pl_pc = "wait" => pl_runs = pl_presses
        /\ pl_pc = "run" => pl_presses = pl_runs + 1
        /\ (pl_pc = "ended" /\ pl_exit \notin { "connect failed", "refused" })
               => pl_exit = "interrupted"

C28_Running == ai_pc \in { "call", "sleep" }

C28_Ended == ai_pc \in { "returned", "raised" }

C28_Safe ==
    LET n == Len(ai_log)
    IN  /\ n <= ai_max_retries
        /\ \A i \in 1..(n - 1) : RateLimited(ai_log[i])
        /\ ai_pc = "call" => n = ai_attempt /\ Len(ai_waits) = n
        /\ ai_pc = "sleep" => n = ai_attempt + 1 /\ Len(ai_waits) = n
        /\ (C28_Running /\ n > 0) => RateLimited(ai_log[n])
        /\ ai_pc = "sleep" => n < ai_max_retries
        /\ \A i \in 1..Len(ai_waits) : ai_waits[i] = BACKOFF * i
        /\ (C28_Ended /\ n > 0) => Len(ai_waits) = n - 1
        /\ (ai_pc = "returned") =>
               n > 0 /\ ai_log[n] = "text" /\ ai_result = "text"
        /\ (ai_pc = "raised" /\ n > 0) =>
               /\ ai_log[n] \in Errors
               /\ ai_result = ai_log[n]
               /\ RateLimited(ai_log[n]) => n = ai_max_retries

C30_HonoringRule ==
    LET seen == lastTick.pending /\ lastTick.pre \in { "MONITORING", "ALARM" }
    IN  /\ seen => (Launched <=> lastTick.apart)
        /\ (seen /\ lastTick.first) => Launched
        /\ Launched => seen
        /\ (Launched /\ ~lastTick.first) => lastTick.apart
        /\ ~honor.any => honor.gap = COOLDOWN

C30_Witness ==
    /\ lastTick.pending
    /\ lastTick.pre = "ALARM"
    /\ ~lastTick.first
    /\ lastTick.apart
    /\ Launched
    /\ honor.gap = 0
    /\ state = "PIPELINE"

\* C31 -- escalation jobs and honored interrupts correspond one to one: the
\* tick that honors a press launches exactly one job, whose args are a copy
\* of that tick's frame and that tick's evidence, and no later frame alters
\* them; no job is launched and PIPELINE is never entered in any other way.
C31_Honored ==
    lastTick.pending /\ lastTick.pre \in { "MONITORING", "ALARM" } /\ lastTick.apart

C31_Now ==
    /\ Count(lastTick.calls, "launch") = (IF C31_Honored THEN 1 ELSE 0)
    /\ Launched => Has(lastTick.calls, "consume")
    /\ (lastTick.mid = "PIPELINE" /\ lastTick.pre # "PIPELINE") => Launched
    /\ (state = "PIPELINE" /\ lastTick.pre # "PIPELINE") => Launched
    /\ state = "PIPELINE" => honor.any
    /\ job_args.launched <=> threads # {}
    /\ job_args.launched => job_args.frame = job_args.evidence
    /\ (Launched /\ job_args.launched) =>
          /\ job_args.frame = lastTick.distressed
          /\ job_args.evidence = lastTick.distressed

C31_Kept ==
    (job_args.launched /\ job_args'.launched /\ lastTick' # lastTick /\ ~Launched')
        => job_args' = job_args

C31_JobPerHonoredInterrupt == [] C31_Now /\ [][C31_Kept]_vars

C31_Witness ==
    /\ job_args.launched
    /\ state = "PIPELINE"
    /\ lastTick.pre = "PIPELINE"
    /\ ~Launched
    /\ lastTick.distressed
    /\ ~job_args.evidence
    /\ ~job_args.frame

\* C34 -- whenever the playing flag is false after a stop() has returned, no
\* alarm loop of an earlier start() is running on the device, also when the
\* stop command failed; so there is never more than one alarm loop running
\* on the device.
C34_StoppedMeansSilent ==
    /\ (~al_playing /\ \A t \in Callers : al_pc[t] \notin { "start:exec", "stop:exec" })
           => al_loops = 0
    /\ al_loops <= 1

\* C32 -- alarm/state consistency.  At the end of every tick the alarm is
\* never playing outside ALARM, whatever command failed; and in ALARM it is
\* playing unless the start command of this ALARM episode failed
\* (lastTick.failed).  So when no start or stop command ever fails, the
\* playing flag is true iff the state is ALARM.
C32_AlarmStateConsistency ==
    phase = "loop" =>
        /\ playing => state = "ALARM"
        /\ (state = "ALARM" /\ ~lastTick.failed) => playing
        /\ lastTick.failed => (state = "ALARM" /\ ~playing)

C32_Witness ==
    /\ phase = "loop"
    /\ state = "PIPELINE"
    /\ lastTick.pre = "ALARM"
    /\ Stopped
    /\ ~playing
    /\ honor.any
    /\ dRun = 0

\* C33 -- alarm.start() is called only by the tick that moves MONITORING to
\* ALARM, never by a tick that finds the state ALARM; so after a failed start
\* the playing flag stays false for as long as the state stays ALARM, however
\* many distressed ticks follow.
C33_Now ==
    /\ Started => (lastTick.mid = "MONITORING" /\ state = "ALARM")
    /\ Count(lastTick.calls, "alarm.start") <= 1
    /\ (state = "ALARM" /\ lastTick.mid = "MONITORING") => Started
    /\ (phase = "loop" /\ state = "ALARM" /\ lastTick.failed) => ~playing

C33_Stays ==
    (state = "ALARM" /\ state' = "ALARM" /\ phase' = "loop")
        => /\ playing' = playing
           /\ lastTick' # lastTick => ~Started'

C33_StartOncePerEpisode == [] C33_Now /\ [][C33_Stays]_vars

C33_Witness ==
    /\ phase = "loop"
    /\ state = "ALARM"
    /\ lastTick.pre = "ALARM"
    /\ lastTick.distressed
    /\ lastTick.failed
    /\ ~Started
    /\ ~playing
    /\ calmRun = 0
    /\ distress_streak = DISTRESS_THRESHOLD

\* The check a detection string names, in either implementation: the two
\* word check 3 and check 5 differently.
CheckOf(reason) ==
    CASE reason = "head below hips - possible fall" -> "1"
      [] reason = "torso horizontal - lying down" -> "2a"
      [] reason = "body spread horizontal - on the ground" -> "2b"
      [] reason \in { "hands above head - distress",
                      "hands above head - distress posture" } -> "3 above"
      [] reason \in { "hands covering face - distress",
                      "hands covering face - distress posture" } -> "3 covering"
      [] reason = "hand near face - possible distress" -> "3 near"
      [] reason = "crouched/curled posture" -> "4"
      [] reason \in { "body very low - possible collapse",
                      "body very low in frame - possible collapse" } -> "5"
      [] OTHER -> "unknown"

Fired(detections) ==
    [ i \in 1..Len(detections) |-> << detections[i][1], CheckOf(detections[i][2]) >> ]

\* C35 -- the two classifier implementations agree: on the same skeletons and
\* frame height, detect_distress of pose_detector.py and _process_frame of
\* live_view.py fire the same checks for the same persons in the same order,
\* and give the same is_distressed, the same anatomical sites and the same
\* number of persons.
C35_ClassifiersAgree ==
    (pose_result.done /\ detect_result.done) =>
        /\ Fired(detect_result.detections) = Fired(pose_result.detections)
        /\ \A i \in 1..Len(pose_result.detections) :
              CheckOf(pose_result.detections[i][2]) # "unknown"
        /\ detect_result.is_distressed = pose_result.is_distressed
        /\ detect_result.anatomical_sites = pose_result.anatomical_sites
        /\ detect_result.num_persons = pose_result.num_persons

C35_Witness ==
    /\ pose_result.done
    /\ detect_result.done
    /\ Len(pose_result.detections) >= 2
    /\ pose_result.anatomical_sites # {}
    /\ \E i \in 1..Len(pose_result.detections) :
          /\ pose_result.detections[i][2] = "hands above head - distress"
          /\ detect_result.detections[i][2] = "hands above head - distress posture"

====
